---- MODULE Spec2Model ----
(***************************************************************************)
(* The descriptive statements of pkg/sql/show.go: SHOW <variable>, SHOW    *)
(* COLUMNS, SHOW CREATE TABLE, SHOW CREATE VIEW, SHOW GRANTS, SHOW INDEX,  *)
(* SHOW CONSTRAINTS, SHOW TABLES and HELP.  Each statement is planned in   *)
(* two phases: the plan-building method returns a delayedNode (or an       *)
(* error), and the delayedNode's constructor callback later produces the   *)
(* rows.                                                                   *)
(*                                                                         *)
(* Text is modelled as Go models it: a string is a sequence of bytes, so   *)
(* that upper-casing, comparison and joining are computed, not assumed.    *)
(*                                                                         *)
(* Every record lists its fields in one fixed order, the order in which   *)
(* the field names first occur in this module.                            *)
(***************************************************************************)
EXTENDS Integers, Sequences, FiniteSets, TLC

VARIABLES
    session,                    \* p.session: Database, User, DefaultIsolationLevel, Syntax, Location, SearchPath
    txn,                        \* p.txn: Isolation, UserPriority
    evalCtxDatabase,            \* p.evalCtx.Database
    skipSelectPrivilegeChecks,  \* p.skipSelectPrivilegeChecks
    pc,                         \* "idle", "failed", "planned", "constructed", "executed"
    stmt,                       \* the statement node n handed to the plan-building method
    plan,                       \* the delayedNode returned by the plan-building method
    buildErr,                   \* the error returned by the plan-building method
    fault,                      \* which collaborator call of the callback fails (environment)
    res,                        \* what the constructor callback returned: err, node, rows, ordering
    acc,                        \* the result accumulator v.rows: "none", "open", "closed"
    reads,                      \* the catalog reads the callback issued, in order
    output,                     \* the rows the returned node delivers when it is run
    call                        \* a rendering function applied to a descriptor: <<function, input, result>>

vars == <<session, txn, evalCtxDatabase, skipSelectPrivilegeChecks, pc, stmt, plan,
          buildErr, fault, res, acc, reads, output, call>>

----------------------------------------------------------------------------
(* Bounds of the model.                                                     *)

\* Largest position of a failing catalog read, row append or descriptor
\* lookup inside one callback.
MaxFaultIdx == 3

----------------------------------------------------------------------------
(* Strings.                                                                 *)

\* strings.ToUpper on one byte (ASCII).
ToUpperByte(c) == IF c >= 97 /\ c <= 122 THEN c - 32 ELSE c

\* strings.ToLower on one byte (ASCII).
ToLowerByte(c) == IF c >= 65 /\ c <= 90 THEN c + 32 ELSE c

ToUpper(s) == [i \in 1..Len(s) |-> ToUpperByte(s[i])]

ToLower(s) == [i \in 1..Len(s) |-> ToLowerByte(s[i])]

\* Go's < on strings: byte-wise lexicographic order.
RECURSIVE StrLess(_, _)
StrLess(a, b) ==
    IF b = <<>> THEN FALSE
    ELSE IF a = <<>> THEN TRUE
    ELSE IF a[1] # b[1] THEN a[1] < b[1]
    ELSE StrLess(Tail(a), Tail(b))

\* strings.Join(elems, sep)
RECURSIVE Join(_, _)
Join(elems, sep) ==
    IF elems = <<>> THEN <<>>
    ELSE IF Len(elems) = 1 THEN elems[1]
    ELSE elems[1] \o sep \o Join(Tail(elems), sep)

\* sort.Strings: insertion of each element into an ascending sequence.
RECURSIVE InsertString(_, _)
InsertString(s, sorted) ==
    IF sorted = <<>> THEN <<s>>
    ELSE IF StrLess(s, sorted[1]) THEN <<s>> \o sorted
    ELSE <<sorted[1]>> \o InsertString(s, Tail(sorted))

RECURSIVE SortStrings(_)
SortStrings(ss) ==
    IF ss = <<>> THEN <<>>
    ELSE InsertString(ss[1], SortStrings(Tail(ss)))

----------------------------------------------------------------------------
(* Errors.  An error value is a record: its kind, the object it names and  *)
(* (for the privilege error) the user it names.                            *)

Err(code, arg) == [code |-> code, arg |-> arg, user |-> <<>>]

NoErr == Err("nil", <<>>)

\* ", "
CommaSpace == <<44, 32>>

\* "."
Dot == <<46>>

----------------------------------------------------------------------------
(* Session variables: varGen and varNames.                                  *)

\* "ALL"
ALL == <<65, 76, 76>>
\* "DATABASE"
DATABASE == <<68, 65, 84, 65, 66, 65, 83, 69>>
\* "DEFAULT_TRANSACTION_ISOLATION"
DEFAULT_TRANSACTION_ISOLATION ==
    <<68, 69, 70, 65, 85, 76, 84, 95, 84, 82, 65, 78, 83, 65, 67, 84, 73, 79, 78, 95,
      73, 83, 79, 76, 65, 84, 73, 79, 78>>
\* "SYNTAX"
SYNTAX == <<83, 89, 78, 84, 65, 88>>
\* "TIME ZONE"
TIME_ZONE == <<84, 73, 77, 69, 32, 90, 79, 78, 69>>
\* "TRANSACTION ISOLATION LEVEL"
TRANSACTION_ISOLATION_LEVEL ==
    <<84, 82, 65, 78, 83, 65, 67, 84, 73, 79, 78, 32, 73, 83, 79, 76, 65, 84, 73, 79,
      78, 32, 76, 69, 86, 69, 76>>
\* "TRANSACTION PRIORITY"
TRANSACTION_PRIORITY ==
    <<84, 82, 65, 78, 83, 65, 67, 84, 73, 79, 78, 32, 80, 82, 73, 79, 82, 73, 84, 89>>
\* "MAX_INDEX_KEYS"
MAX_INDEX_KEYS == <<77, 65, 88, 95, 73, 78, 68, 69, 88, 95, 75, 69, 89, 83>>
\* "SEARCH_PATH"
SEARCH_PATH == <<83, 69, 65, 82, 67, 72, 95, 80, 65, 84, 72>>

\* The keys of varGen, in the order the map literal lists them.
varGenKeys ==
    <<DATABASE, DEFAULT_TRANSACTION_ISOLATION, SYNTAX, TIME_ZONE,
      TRANSACTION_ISOLATION_LEVEL, TRANSACTION_PRIORITY, MAX_INDEX_KEYS, SEARCH_PATH>>

varGenKeySet == {varGenKeys[i] : i \in 1..Len(varGenKeys)}

\* enginepb.IsolationType.String(): 0 is SERIALIZABLE, 1 is SNAPSHOT.
IsolationString(i) ==
    IF i = 0 THEN <<83, 69, 82, 73, 65, 76, 73, 90, 65, 66, 76, 69>>
    ELSE <<83, 78, 65, 80, 83, 72, 79, 84>>

\* parser.Syntax.String(): 0 is Traditional, 1 is Modern.
SyntaxString(i) ==
    IF i = 0 THEN <<84, 114, 97, 100, 105, 116, 105, 111, 110, 97, 108>>
    ELSE <<77, 111, 100, 101, 114, 110>>

\* roachpb.UserPriority.String(): 0 is LOW, 1 is NORMAL, 2 is HIGH.
UserPriorityString(pr) ==
    IF pr = 0 THEN <<76, 79, 87>>
    ELSE IF pr = 1 THEN <<78, 79, 82, 77, 65, 76>>
    ELSE <<72, 73, 71, 72>>

\* time.Location.String(): the name the location was loaded under.
LocationString(loc) == loc.name

\* varGen[vName](p): the accessor registered under vName, applied to the planner.
varGen(vName, s, t) ==
    CASE vName = DATABASE -> s.Database
      [] vName = DEFAULT_TRANSACTION_ISOLATION -> IsolationString(s.DefaultIsolationLevel)
      [] vName = SYNTAX -> SyntaxString(s.Syntax)
      [] vName = TIME_ZONE -> LocationString(s.Location)
      [] vName = TRANSACTION_ISOLATION_LEVEL -> IsolationString(t.Isolation)
      [] vName = TRANSACTION_PRIORITY -> UserPriorityString(t.UserPriority)
      [] vName = MAX_INDEX_KEYS -> <<51, 50>>
      [] vName = SEARCH_PATH -> Join(s.SearchPath, CommaSpace)

\* The keys of varGen collected and left as collected.
varNamesUnsorted == varGenKeys

\* varNames: the keys of varGen collected and sorted with sort.Strings.
varNames == SortStrings(varGenKeys)

----------------------------------------------------------------------------
(* The catalog the statements read, as one transaction snapshot shows it.   *)

\* "test"
db_test == <<116, 101, 115, 116>>
\* "other"
db_other == <<111, 116, 104, 101, 114>>
\* "nodb": a database that does not exist
db_nodb == <<110, 111, 100, 98>>
\* "information_schema": a virtual schema
db_information_schema ==
    <<105, 110, 102, 111, 114, 109, 97, 116, 105, 111, 110, 95, 115, 99, 104, 101, 109, 97>>
\* "t"
tbl_t == <<116>>
\* "u"
tbl_u == <<117>>
\* "vw": a view
tbl_vw == <<118, 119>>
\* "tables": a virtual table of information_schema
tbl_tables == <<116, 97, 98, 108, 101, 115>>
\* "nt": a table that does not exist
tbl_nt == <<110, 116>>
\* "alice"
alice == <<97, 108, 105, 99, 101>>
\* "bob"
bob == <<98, 111, 98>>
\* "SELECT"
SELECT == <<83, 69, 76, 69, 67, 84>>
\* "INSERT"
INSERT == <<73, 78, 83, 69, 82, 84>>

\* information_schema.schemata: the SCHEMA_NAME of every database.
Schemata == {db_test, db_other, db_information_schema}

\* information_schema.tables: (TABLE_SCHEMA, TABLE_NAME) of every table and view.
Tables ==
    {<<db_test, tbl_t>>, <<db_test, tbl_u>>, <<db_test, tbl_vw>>, <<db_other, tbl_t>>,
     <<db_information_schema, tbl_tables>>}

\* The virtual schemas and their tables (p.session.virtualSchemas).
VirtualTables == {<<db_information_schema, tbl_tables>>}

VirtualSchemas == {vt[1] : vt \in VirtualTables}

\* information_schema.table_privileges, in the order the table is stored:
\* (TABLE_SCHEMA, TABLE_NAME, GRANTEE, PRIVILEGE_TYPE).
TablePrivileges ==
    << <<db_test, tbl_t, alice, SELECT>>,
       <<db_test, tbl_t, bob, SELECT>>,
       <<db_test, tbl_t, alice, INSERT>>,
       <<db_test, tbl_u, bob, SELECT>>,
       <<db_test, tbl_vw, alice, SELECT>>,
       <<db_other, tbl_t, bob, SELECT>> >>

\* information_schema.schema_privileges, in the order the table is stored:
\* (TABLE_SCHEMA, GRANTEE, PRIVILEGE_TYPE).
SchemaPrivileges ==
    << <<db_test, bob, SELECT>>,
       <<db_test, alice, SELECT>>,
       <<db_other, bob, INSERT>>,
       <<db_other, alice, INSERT>> >>

\* parser.DNull, the null datum (no string holds a negative byte).
DNull == <<-1>>


----------------------------------------------------------------------------
(* Qualified names.                                                         *)

\* parser.TableName.String(): database.table
TableNameString(tn) == tn.db \o Dot \o tn.table

\* n.Table.NormalizeWithDatabaseName(p.session.Database): an omitted database
\* part is filled in from the session; with neither there is no database.
NormalizeWithDatabaseName(t, database) ==
    IF t.db # <<>> THEN [tn |-> t, err |-> NoErr]
    ELSE IF database = <<>> THEN [tn |-> t, err |-> Err("NoDatabase", <<>>)]
    ELSE [tn |-> [db |-> database, table |-> t.table], err |-> NoErr]

\* sqlbase.NewUndefinedDatabaseError(name)
NewUndefinedDatabaseError(name) == Err("UndefinedDatabase", name)

\* sqlbase.NewUndefinedTableError(name)
NewUndefinedTableError(name) == Err("UndefinedTable", name)

\* fmt.Errorf("user %s has no privileges on table %s", user, name)
NoPrivilegesError(user, name) ==
    [code |-> "NoPrivileges", arg |-> name, user |-> user]

----------------------------------------------------------------------------
(* Descriptors.                                                             *)

\* A column descriptor.  hasDefault is DefaultExpr != nil.
Column(id, name, type, nullable, hasDefault, defaultExpr, hidden) ==
    [hasDefault |-> hasDefault, ID |-> id, Name |-> name, Type |-> type,
     Nullable |-> nullable, DefaultExpr |-> defaultExpr, Hidden |-> hidden]

\* An index descriptor.  ancestors is Interleave.Ancestors.
Index(name, unique, columnNames, columnIDs, directions, storeColumnNames, ancestors) ==
    [Name |-> name, Unique |-> unique, ColumnNames |-> columnNames,
     ColumnIDs |-> columnIDs, ColumnDirections |-> directions,
     StoreColumnNames |-> storeColumnNames, Ancestors |-> ancestors]

\* "a", "b", "c", "rowid"
col_a == <<97>>
col_b == <<98>>
col_c == <<99>>
col_rowid == <<114, 111, 119, 105, 100>>
\* "primary"
name_primary == <<112, 114, 105, 109, 97, 114, 121>>
\* Column types as Type.SQLString() renders them.
type_INT == <<73, 78, 84>>
type_STRING == <<83, 84, 82, 73, 78, 71>>

\* test.t: CREATE TABLE t (a INT NOT NULL, b INT NULL DEFAULT 5, PRIMARY KEY (a))
desc_test_t ==
    [ID |-> 51, Name |-> tbl_t, isView |-> FALSE,
     Columns |-> << Column(1, col_a, type_INT, FALSE, FALSE, <<>>, FALSE),
                    Column(2, col_b, type_INT, TRUE, TRUE, <<53>>, FALSE) >>,
     PrimaryIndex |-> Index(name_primary, TRUE, <<col_a>>, <<1>>, <<"ASC">>, <<>>, <<>>),
     Indexes |-> <<>>,
     Families |-> << [Name |-> name_primary, ColumnNames |-> <<col_a, col_b>>,
                      ColumnIDs |-> <<1, 2>>] >>,
     Checks |-> <<>>,
     ViewQuery |-> <<>>]

\* test.u: no explicit primary key (hidden rowid); a unique index on (a, b DESC)
\* storing c and interleaved in t; an index on c; two checks; two families, the
\* second still naming a column (id 5) that is being dropped.
desc_test_u ==
    [ID |-> 52, Name |-> tbl_u, isView |-> FALSE,
     Columns |-> << Column(1, col_a, type_INT, TRUE, FALSE, <<>>, FALSE),
                    Column(2, col_b, type_INT, TRUE, FALSE, <<>>, FALSE),
                    Column(3, col_c, type_STRING, TRUE, FALSE, <<>>, FALSE),
                    Column(4, col_rowid, type_INT, FALSE, TRUE, <<117, 110, 105, 113, 117, 101, 95, 114, 111, 119, 105, 100, 40, 41>>, TRUE) >>,
     PrimaryIndex |-> Index(name_primary, TRUE, <<col_rowid>>, <<4>>, <<"ASC">>, <<>>, <<>>),
     Indexes |-> << Index(<<105, 120>>, TRUE, <<col_a, col_b>>, <<1, 2>>, <<"ASC", "DESC">>,
                          <<col_c>>, << [TableID |-> 51, SharedPrefixLen |-> 1] >>),
                    Index(<<105, 121>>, FALSE, <<col_c>>, <<3>>, <<"ASC">>, <<>>, <<>>) >>,
     Families |-> << [Name |-> name_primary, ColumnNames |-> <<col_a, col_b, col_rowid>>,
                      ColumnIDs |-> <<1, 2, 4>>],
                     [Name |-> <<102, 50>>, ColumnNames |-> <<col_c, <<100>>>>,
                      ColumnIDs |-> <<3, 5>>] >>,
     Checks |-> << [Name |-> <<99, 107>>, Expr |-> <<97, 32, 62, 32, 48>>],
                   [Name |-> <<>>, Expr |-> <<98, 32, 62, 32, 48>>] >>,
     ViewQuery |-> <<>>]

\* other.t: primary key (a, b), interleaved in test.t on a; an index on (b DESC).
desc_other_t ==
    [ID |-> 53, Name |-> tbl_t, isView |-> FALSE,
     Columns |-> << Column(1, col_a, type_INT, FALSE, FALSE, <<>>, FALSE),
                    Column(2, col_b, type_INT, FALSE, FALSE, <<>>, FALSE) >>,
     PrimaryIndex |-> Index(name_primary, TRUE, <<col_a, col_b>>, <<1, 2>>, <<"ASC", "ASC">>,
                            <<>>, << [TableID |-> 51, SharedPrefixLen |-> 1] >>),
     Indexes |-> << Index(<<105, 122>>, FALSE, <<col_b>>, <<2>>, <<"DESC">>, <<>>, <<>>) >>,
     Families |-> << [Name |-> name_primary, ColumnNames |-> <<col_a, col_b>>,
                      ColumnIDs |-> <<1, 2>>] >>,
     Checks |-> <<>>,
     ViewQuery |-> <<>>]

\* test.vw: CREATE VIEW vw AS SELECT a, b FROM test.t
desc_test_vw ==
    [ID |-> 54, Name |-> tbl_vw, isView |-> TRUE,
     Columns |-> << Column(1, col_a, type_INT, FALSE, FALSE, <<>>, FALSE),
                    Column(2, col_b, type_INT, TRUE, FALSE, <<>>, FALSE) >>,
     PrimaryIndex |-> Index(<<>>, FALSE, <<>>, <<>>, <<>>, <<>>, <<>>),
     Indexes |-> <<>>,
     Families |-> <<>>,
     Checks |-> <<>>,
     ViewQuery |-> <<83, 69, 76, 69, 67, 84, 32, 97, 44, 32, 98, 32, 70, 82, 79, 77, 32, 116, 101, 115, 116, 46, 116>>]

\* information_schema.tables: a virtual table; like every table without an
\* explicit primary key it is keyed by a hidden rowid.
desc_information_schema_tables ==
    [ID |-> 0, Name |-> tbl_tables, isView |-> FALSE,
     Columns |-> << Column(1, <<84, 65, 66, 76, 69, 95, 83, 67, 72, 69, 77, 65>>, type_STRING, FALSE, FALSE, <<>>, FALSE),
                    Column(2, <<84, 65, 66, 76, 69, 95, 78, 65, 77, 69>>, type_STRING, FALSE, FALSE, <<>>, FALSE),
                    Column(3, col_rowid, type_INT, FALSE, TRUE,
                           <<117, 110, 105, 113, 117, 101, 95, 114, 111, 119, 105, 100, 40, 41>>,
                           TRUE) >>,
     PrimaryIndex |-> Index(name_primary, TRUE, <<col_rowid>>, <<3>>, <<"ASC">>, <<>>, <<>>),
     Indexes |-> <<>>,
     Families |-> << [Name |-> name_primary, ColumnNames |-> <<col_rowid>>,
                      ColumnIDs |-> <<3>>] >>,
     Checks |-> <<>>,
     ViewQuery |-> <<>>]

\* The descriptor stored under a qualified name that exists.
DescOf(db, table) ==
    CASE <<db, table>> = <<db_test, tbl_t>> -> desc_test_t
      [] <<db, table>> = <<db_test, tbl_u>> -> desc_test_u
      [] <<db, table>> = <<db_other, tbl_t>> -> desc_other_t
      [] <<db, table>> = <<db_test, tbl_vw>> -> desc_test_vw
      [] <<db, table>> = <<db_information_schema, tbl_tables>> -> desc_information_schema_tables

\* sqlbase.GetTableDescFromID
DescByID(id) ==
    CASE id = 51 -> desc_test_t
      [] id = 52 -> desc_test_u
      [] id = 53 -> desc_other_t
      [] id = 54 -> desc_test_vw

\* The elements of a sequence that satisfy a test, in order.
SelectSeqIdx(seq, Keep(_)) ==
    LET F[i \in 0..Len(seq)] ==
            IF i = 0 THEN <<>>
            ELSE IF Keep(seq[i]) THEN Append(F[i - 1], seq[i]) ELSE F[i - 1]
    IN F[Len(seq)]

\* desc.VisibleColumns(): the columns that are not hidden.
VisibleColumns(desc) ==
    LET Shown(c) == ~c.Hidden IN SelectSeqIdx(desc.Columns, Shown)

\* desc.FindActiveColumnByID(id) succeeds.
HasActiveColumn(desc, id) == \E i \in 1..Len(desc.Columns) : desc.Columns[i].ID = id

\* desc.IsPhysicalTable()
IsPhysicalTable(desc) == ~desc.isView

\* p.mustGetTableDesc(tn): the descriptor, or the error naming what is missing.
mustGetTableDesc(tn) ==
    IF tn.db \notin Schemata THEN [err |-> NewUndefinedDatabaseError(tn.db), found |-> FALSE]
    ELSE IF <<tn.db, tn.table>> \notin Tables
    THEN [err |-> NewUndefinedTableError(TableNameString(tn)), found |-> FALSE]
    ELSE [err |-> NoErr, found |-> TRUE]

\* p.mustGetViewDesc(tn): as mustGetTableDesc, and the object must be a view.
mustGetViewDesc(tn) ==
    LET got == mustGetTableDesc(tn) IN
    IF got.err # NoErr THEN got
    ELSE IF ~DescOf(tn.db, tn.table).isView
    THEN [err |-> Err("NotAView", TableNameString(tn)), found |-> FALSE]
    ELSE got

\* getColumns: SELECT COLUMN_NAME, DATA_TYPE, (IS_NULLABLE!='NO'), COLUMN_DEFAULT
\* ... WHERE TABLE_SCHEMA=$1 AND TABLE_NAME=$2 ORDER BY ORDINAL_POSITION
getColumns(db, table) ==
    IF <<db, table>> \notin Tables THEN <<>>
    ELSE LET cols == VisibleColumns(DescOf(db, table)) IN
         [i \in 1..Len(cols) |->
             <<cols[i].Name, cols[i].Type, cols[i].Nullable,
               IF cols[i].hasDefault THEN cols[i].DefaultExpr ELSE DNull>>]

----------------------------------------------------------------------------
(* Collaborator failures.  fault names the one collaborator call of a      *)
(* callback that fails: the idx-th catalog read ("read"), the idx-th row   *)
(* append ("add") or the idx-th descriptor-layer call ("desc").            *)

NoFault == [kind |-> "none", idx |-> 0]

Faults ==
    {NoFault} \cup [kind : {"read", "add", "desc"}, idx : 1..MaxFaultIdx]

\* As ReadFails, for a callback that goes on after a failed read.
ReadFailureIgnored(k, f) == FALSE

ReadFails(k, f) == f.kind = "read" /\ f.idx = k

DescFails(k, f) == f.kind = "desc" /\ f.idx = k

\* The error a failing collaborator call returns: it names the call.
CallErr(kind, k) == Err(kind, <<k>>)

\* One catalog read as the log keeps it: the template, its arguments, whether
\* it ran as the root user, and p.evalCtx.Database at the time.
Read(q, args, asRoot, evalDb) ==
    [q |-> q, args |-> args, asRoot |-> asRoot, evalDb |-> evalDb, text |-> <<>>]

\* A read through p.queryRows whose statement text is built by the callback.
Query(q, text, args, evalDb) ==
    [q |-> q, args |-> args, asRoot |-> FALSE, evalDb |-> evalDb, text |-> text]

\* v.rows.AddRow for each of rows in turn, the f.idx-th append failing:
\* the rows the accumulator holds afterwards and the error, if any.
AddRows(held, rows, f) ==
    LET done == Len(held) IN
    IF f.kind = "add" /\ f.idx > done /\ f.idx <= done + Len(rows)
    THEN [err |-> CallErr("add", f.idx), rows |-> held \o SubSeq(rows, 1, f.idx - done - 1)]
    ELSE [err |-> NoErr, rows |-> held \o rows]

\* What a constructor callback leaves behind: the returned error and node,
\* the rows of the accumulator, the ordering of the sort stage wrapped around
\* it, the accumulator's state, the catalog reads issued, and the planner's
\* current database and privilege-check flag when it returns.
Ret(err, node, rows, ordering, accState, log, evalDb, skip) ==
    [acc |-> accState, reads |-> log, err |-> err, evalDb |-> evalDb,
     rows |-> rows, node |-> node, ordering |-> ordering, skip |-> skip]

\* A plan-building method's result.
Built(err, node) == [err |-> err, node |-> node]

NoPlan == [kind |-> "nil"]

NoStmt == [kind |-> "nil"]

NoRes == [err |-> NoErr, rows |-> <<>>, node |-> "nil", ordering |-> <<>>]

\* No rendering function has been applied.
NoCall == <<"none">>

----------------------------------------------------------------------------
(* SHOW <variable> and SHOW ALL.                                            *)

\* {Variable, Value}
ShowAllColumns == << <<86, 97, 114, 105, 97, 98, 108, 101>>, <<86, 97, 108, 117, 101>> >>

\* "SHOW "
ShowPrefix == <<83, 72, 79, 87, 32>>

\* A plan-building method of SHOW that does not look the name up in varGen.
ShowPlanUnchecked(n) ==
    LET name == ToUpper(n.Name) IN
    Built(NoErr, [name |-> ShowPrefix \o name, kind |-> "Show",
                  columns |-> IF name = ALL THEN ShowAllColumns ELSE <<name>>,
                  varName |-> name])

\* planner.Show up to the return of the delayedNode.
ShowPlan(n) ==
    LET name == ToUpper(n.Name) IN
    IF name = ALL
    THEN Built(NoErr, [name |-> ShowPrefix \o name, kind |-> "Show",
                       columns |-> ShowAllColumns, varName |-> name])
    ELSE IF name \notin varGenKeySet
    THEN Built(Err("UnknownVariable", name), NoPlan)
    ELSE Built(NoErr, [name |-> ShowPrefix \o name, kind |-> "Show",
                       columns |-> <<name>>, varName |-> name])

\* The rows SHOW ALL appends: one (vName, value) per entry of varNames.
ShowAllRows(s, t) ==
    [i \in 1..Len(varNames) |-> <<varNames[i], varGen(varNames[i], s, t)>>]

\* The constructor of planner.Show.
ShowConstructor(name, s, t, evalDb, skip, f) ==
    IF name = ALL
    THEN LET a == AddRows(<<>>, ShowAllRows(s, t), f) IN
         IF a.err # NoErr
         THEN Ret(a.err, "nil", a.rows, <<>>, "closed", <<>>, evalDb, skip)
         ELSE Ret(NoErr, "valuesNode", a.rows, <<>>, "open", <<>>, evalDb, skip)
    ELSE IF name \notin varGenKeySet
    \* gen is the nil func: calling it panics
    THEN Ret(Err("panic", name), "nil", <<>>, <<>>, "open", <<>>, evalDb, skip)
    ELSE LET a == AddRows(<<>>, << <<varGen(name, s, t)>> >>, f) IN
         IF a.err # NoErr
         THEN Ret(a.err, "nil", a.rows, <<>>, "closed", <<>>, evalDb, skip)
         ELSE Ret(NoErr, "valuesNode", a.rows, <<>>, "open", <<>>, evalDb, skip)

----------------------------------------------------------------------------
(* The catalog read templates.                                              *)

\* A database probe that finds every database.
checkSchemaAlwaysFound(db) == << <<db>> >>

\* checkSchema: SELECT SCHEMA_NAME ... WHERE SCHEMA_NAME=$1 LIMIT 1
checkSchema(db) == IF db \in Schemata THEN << <<db>> >> ELSE <<>>

\* checkTable: SELECT TABLE_SCHEMA ... WHERE TABLE_SCHEMA=$1 AND TABLE_NAME=$2 LIMIT 1
checkTable(db, table) == IF <<db, table>> \in Tables THEN << <<db>> >> ELSE <<>>

\* A privilege probe that finds a privilege for every user.
checkTablePrivilegeAlwaysFound(db, table, user) == << <<table>> >>

\* checkTablePrivilege: SELECT TABLE_NAME ... WHERE TABLE_SCHEMA=$1 AND
\* TABLE_NAME=$2 AND GRANTEE=$3 LIMIT 1
checkTablePrivilege(db, table, user) ==
    IF \E i \in 1..Len(TablePrivileges) :
          /\ TablePrivileges[i][1] = db
          /\ TablePrivileges[i][2] = table
          /\ TablePrivileges[i][3] = user
    THEN << <<table>> >>
    ELSE <<>>


\* The set of elements of a sequence, as a sequence in some order.
RECURSIVE SetToSeq(_)
SetToSeq(S) ==
    IF S = {} THEN <<>>
    ELSE LET x == CHOOSE x \in S : TRUE IN <<x>> \o SetToSeq(S \ {x})

\* getTables: SELECT TABLE_NAME ... WHERE tables.TABLE_SCHEMA=$1 ORDER BY tables.TABLE_NAME
getTables(db) ==
    LET names == SortStrings(SetToSeq({t[2] : t \in {x \in Tables : x[1] = db}}))
    IN [i \in 1..Len(names) |-> <<names[i]>>]

\* p.session.virtualSchemas.getVirtualTableDesc(tn): the descriptor of a
\* virtual table, nil for a name outside the virtual schemas, an error for a
\* name of a virtual schema that has no such table.
getVirtualTableDesc(tn) ==
    IF tn.db \in VirtualSchemas
    THEN IF <<tn.db, tn.table>> \in VirtualTables
         THEN [err |-> NoErr, isNil |-> FALSE]
         ELSE [err |-> NewUndefinedTableError(TableNameString(tn)), isNil |-> TRUE]
    ELSE [err |-> NoErr, isNil |-> TRUE]

\* p.anyPrivilege(desc): the session's user holds some privilege on the object.
anyPrivilege(tn, user) ==
    IF \/ Len(checkTablePrivilege(tn.db, tn.table, user)) > 0
       \/ <<tn.db, tn.table>> \in VirtualTables
    THEN NoErr
    ELSE NoPrivilegesError(user, TableNameString(tn))

----------------------------------------------------------------------------
(* SHOW COLUMNS.                                                            *)

\* {Field, Type, Null, Default}
ShowColumnsColumns ==
    << <<70, 105, 101, 108, 100>>, <<84, 121, 112, 101>>, <<78, 117, 108, 108>>,
       <<68, 101, 102, 97, 117, 108, 116>> >>

\* "SHOW COLUMNS FROM "
ShowColumnsPrefix ==
    <<83, 72, 79, 87, 32, 67, 79, 76, 85, 77, 78, 83, 32, 70, 82, 79, 77, 32>>

\* A plan-building method of SHOW COLUMNS that looks the table up itself, as
\* the plan-building method of SHOW INDEX does.
ShowColumnsPlanProbing(n, s) ==
    LET norm == NormalizeWithDatabaseName(n.Table, s.Database)
        got == mustGetTableDesc(norm.tn)
    IN
    IF norm.err # NoErr THEN Built(norm.err, NoPlan)
    ELSE IF got.err # NoErr THEN Built(got.err, NoPlan)
    ELSE Built(NoErr, [name |-> ShowColumnsPrefix \o TableNameString(norm.tn),
                       tn |-> norm.tn,
                       kind |-> "ShowColumns", columns |-> ShowColumnsColumns])

\* planner.ShowColumns up to the return of the delayedNode.
ShowColumnsPlan(n, s) ==
    LET norm == NormalizeWithDatabaseName(n.Table, s.Database) IN
    IF norm.err # NoErr THEN Built(norm.err, NoPlan)
    ELSE Built(NoErr, [name |-> ShowColumnsPrefix \o TableNameString(norm.tn),
                       tn |-> norm.tn,
                       kind |-> "ShowColumns", columns |-> ShowColumnsColumns])

\* A deferred func that restores nothing: the override stays.
ShowColumnsDeferredKeepsOverride(origDatabase, current) == current

\* The deferred func of the ShowColumns constructor: p.evalCtx.Database = origDatabase.
ShowColumnsDeferred(origDatabase, current) == origDatabase

\* The constructor of planner.ShowColumns.
ShowColumnsConstructor(tn, s, evalDb, skip, f) ==
    LET r1 == Read("checkSchema", <<tn.db>>, TRUE, evalDb)
        r2 == Read("checkTable", <<tn.db, tn.table>>, TRUE, evalDb)
        r3 == Read("checkTablePrivilege", <<tn.db, tn.table, s.User>>, FALSE, evalDb)
        virDesc == getVirtualTableDesc(tn)
        checked == IF virDesc.isNil THEN <<r1, r2, r3>> ELSE <<r1, r2>>
        \* the override: p.evalCtx.Database = tn.Database()
        origDatabase == evalDb
        overridden == tn.db
        rc == Read("getColumns", <<tn.db, tn.table>>, FALSE, overridden)
        restored == ShowColumnsDeferred(origDatabase, overridden)
        a == AddRows(<<>>, getColumns(tn.db, tn.table), f)
    IN
    IF ReadFails(1, f)
    THEN Ret(CallErr("read", 1), "nil", <<>>, <<>>, "none", <<r1>>, evalDb, skip)
    ELSE IF Len(checkSchema(tn.db)) = 0
    THEN Ret(NewUndefinedDatabaseError(tn.db), "nil", <<>>, <<>>, "none", <<r1>>, evalDb, skip)
    ELSE IF ReadFails(2, f)
    THEN Ret(CallErr("read", 2), "nil", <<>>, <<>>, "none", <<r1, r2>>, evalDb, skip)
    ELSE IF Len(checkTable(tn.db, tn.table)) = 0
    THEN Ret(NewUndefinedTableError(TableNameString(tn)), "nil", <<>>, <<>>, "none",
             <<r1, r2>>, evalDb, skip)
    ELSE IF virDesc.err # NoErr
    THEN Ret(virDesc.err, "nil", <<>>, <<>>, "none", <<r1, r2>>, evalDb, skip)
    ELSE IF virDesc.isNil /\ ReadFails(3, f)
    THEN Ret(CallErr("read", 3), "nil", <<>>, <<>>, "none", checked, evalDb, skip)
    ELSE IF virDesc.isNil /\ Len(checkTablePrivilege(tn.db, tn.table, s.User)) = 0
    THEN Ret(NoPrivilegesError(s.User, TableNameString(tn)), "nil", <<>>, <<>>, "none",
             checked, evalDb, skip)
    ELSE IF ReadFails(Len(checked) + 1, f)
    THEN Ret(CallErr("read", Len(checked) + 1), "nil", <<>>, <<>>, "none",
             Append(checked, rc), restored, skip)
    ELSE IF a.err # NoErr
    THEN Ret(a.err, "nil", a.rows, <<>>, "closed", Append(checked, rc), restored, skip)
    ELSE Ret(NoErr, "valuesNode", a.rows, <<>>, "open", Append(checked, rc), restored, skip)

----------------------------------------------------------------------------
(* SHOW TABLES.                                                             *)

\* {Table}
ShowTablesColumns == << <<84, 97, 98, 108, 101>> >>

\* "SHOW TABLES FROM "
ShowTablesPrefix == <<83, 72, 79, 87, 32, 84, 65, 66, 76, 69, 83, 32, 70, 82, 79, 77, 32>>

\* planner.ShowTables up to the return of the delayedNode.
ShowTablesPlan(n, s) ==
    LET name == IF n.Database # <<>> THEN n.Database ELSE s.Database IN
    IF name = <<>> THEN Built(Err("NoDatabase", <<>>), NoPlan)
    ELSE Built(NoErr, [name |-> ShowTablesPrefix \o name, db |-> name,
                       kind |-> "ShowTables", columns |-> ShowTablesColumns])

\* The deferred func of the ShowTables constructor: p.evalCtx.Database = origDatabase.
ShowTablesDeferred(origDatabase, current) == origDatabase

\* The constructor of planner.ShowTables.
ShowTablesConstructor(name, s, evalDb, skip, f) ==
    LET r1 == Read("checkSchema", <<name>>, TRUE, evalDb)
        origDatabase == evalDb
        overridden == name
        rt == Read("getTables", <<name>>, FALSE, overridden)
        restored == ShowTablesDeferred(origDatabase, overridden)
        a == AddRows(<<>>, getTables(name), f)
    IN
    IF ReadFails(1, f)
    THEN Ret(CallErr("read", 1), "nil", <<>>, <<>>, "none", <<r1>>, evalDb, skip)
    ELSE IF Len(checkSchema(name)) = 0
    THEN Ret(NewUndefinedDatabaseError(name), "nil", <<>>, <<>>, "none", <<r1>>, evalDb, skip)
    ELSE IF ReadFails(2, f)
    THEN Ret(CallErr("read", 2), "nil", <<>>, <<>>, "none", <<r1, rt>>, restored, skip)
    ELSE IF a.err # NoErr
    THEN Ret(a.err, "nil", a.rows, <<>>, "closed", <<r1, rt>>, restored, skip)
    ELSE Ret(NoErr, "valuesNode", a.rows, <<>>, "open", <<r1, rt>>, restored, skip)

----------------------------------------------------------------------------
(* Identifier quoting.                                                      *)

\* A byte that may start a bare identifier: a letter or an underscore.
IsIdentStart(c) == (c >= 65 /\ c <= 90) \/ (c >= 97 /\ c <= 122) \/ c = 95

\* A byte that may continue a bare identifier: also a digit or a dollar sign.
IsIdentMiddle(c) == IsIdentStart(c) \/ (c >= 48 /\ c <= 57) \/ c = 36

IsBareIdentifier(s) ==
    /\ Len(s) > 0
    /\ IsIdentStart(s[1])
    /\ \A i \in 2..Len(s) : IsIdentMiddle(s[i])

\* A name inside double quotes, each double quote of the name doubled.
RECURSIVE EscapeQuotes(_)
EscapeQuotes(s) ==
    IF s = <<>> THEN <<>>
    ELSE (IF s[1] = 34 THEN <<34, 34>> ELSE <<s[1]>>) \o EscapeQuotes(Tail(s))

\* parser.Name.Format: a bare identifier as it is, any other name quoted.
QuoteName(s) == IF IsBareIdentifier(s) THEN s ELSE <<34>> \o EscapeQuotes(s) \o <<34>>

\* quoteNames(names...): the quoted names joined with ", ".
quoteNames(names) == Join([i \in 1..Len(names) |-> QuoteName(names[i])], CommaSpace)

\* n.Table.String(): the name as the statement wrote it, each part formatted
\* as a name.
NameAsWritten(t) ==
    IF t.db = <<>> THEN QuoteName(t.table) ELSE QuoteName(t.db) \o Dot \o QuoteName(t.table)

\* All the strings of a sequence, one after the other.
RECURSIVE Concat(_)
Concat(parts) == IF parts = <<>> THEN <<>> ELSE parts[1] \o Concat(Tail(parts))

----------------------------------------------------------------------------
(* SHOW CREATE TABLE.                                                       *)

\* {Table, CreateTable}
ShowCreateTableColumns == << <<84, 97, 98, 108, 101>>, <<67, 114, 101, 97, 116, 101, 84, 97, 98, 108, 101>> >>

\* "SHOW CREATE TABLE "
ShowCreateTablePrefix == <<83, 72, 79, 87, 32, 67, 82, 69, 65, 84, 69, 32, 84, 65, 66, 76, 69, 32>>

\* planner.ShowCreateTable up to the return of the delayedNode.
ShowCreateTablePlan(n, s) ==
    LET norm == NormalizeWithDatabaseName(n.Table, s.Database)
        got == mustGetTableDesc(norm.tn)
        priv == anyPrivilege(norm.tn, s.User)
    IN
    IF norm.err # NoErr THEN Built(norm.err, NoPlan)
    ELSE IF got.err # NoErr THEN Built(got.err, NoPlan)
    ELSE IF priv # NoErr THEN Built(priv, NoPlan)
    ELSE Built(NoErr, [name |-> ShowCreateTablePrefix \o TableNameString(norm.tn),
                       tn |-> norm.tn,
                       desc |-> DescOf(norm.tn.db, norm.tn.table), kind |-> "ShowCreateTable",
                       columns |-> ShowCreateTableColumns])

\* The sum of the ancestors' SharedPrefixLen.
RECURSIVE SumSharedPrefixLen(_)
SumSharedPrefixLen(ancestors) ==
    IF ancestors = <<>> THEN 0
    ELSE ancestors[1].SharedPrefixLen + SumSharedPrefixLen(Tail(ancestors))

\* planner.showCreateInterleave(idx), its GetTableDescFromID being the k-th
\* descriptor lookup of the callback: the error, the clause and the number of
\* lookups made.
showCreateInterleave(idx, k, f) ==
    LET ancestors == idx.Ancestors
        sharedPrefixLen == SumSharedPrefixLen(ancestors)
        parentTable == DescByID(ancestors[Len(ancestors)].TableID)
    IN
    IF Len(ancestors) = 0 THEN [s |-> <<>>, err |-> NoErr, calls |-> 0]
    ELSE IF DescFails(k, f) THEN [s |-> <<>>, err |-> CallErr("desc", k), calls |-> 1]
    \* idx.ColumnNames[:sharedPrefixLen] with the bound out of range panics
    ELSE IF sharedPrefixLen > Len(idx.ColumnNames)
    THEN [s |-> <<>>, err |-> Err("panic", idx.Name), calls |-> 1]
    ELSE [s |-> <<32, 73, 78, 84, 69, 82, 76, 69, 65, 86, 69, 32, 73, 78, 32, 80, 65, 82, 69, 78, 84, 32>> \o parentTable.Name \o <<32, 40>>
                \o quoteNames(SubSeq(idx.ColumnNames, 1, sharedPrefixLen)) \o <<41>>,
          err |-> NoErr,
          calls |-> 1]

\* The text written for the visible column at position i (from 1).
ColumnClause(col, i) ==
    Concat(<< IF i # 1 THEN <<44>> ELSE <<>>,
              <<10, 9>>,
              quoteNames(<<col.Name>>), <<32>>, col.Type,
              IF col.Nullable THEN <<32, 78, 85, 76, 76>> ELSE <<32, 78, 79, 84, 32, 78, 85, 76, 76>>,
              IF col.hasDefault THEN <<32, 68, 69, 70, 65, 85, 76, 84, 32>> \o col.DefaultExpr ELSE <<>> >>)

\* As PrimaryClause, without the test of the primary key's first column.
PrimaryClauseOfAnyTable(desc) ==
    Concat(<< <<44, 10, 9, 67, 79, 78, 83, 84, 82, 65, 73, 78, 84, 32>>, quoteNames(<<desc.PrimaryIndex.Name>>),
              <<32, 80, 82, 73, 77, 65, 82, 89, 32, 75, 69, 89, 32, 40>>, quoteNames(desc.PrimaryIndex.ColumnNames), <<41>> >>)

\* The value of primary after the loop over the visible columns.
PrimaryClause(desc) ==
    LET cols == VisibleColumns(desc) IN
    IF \E i \in 1..Len(cols) :
          IsPhysicalTable(desc) /\ desc.PrimaryIndex.ColumnIDs[1] = cols[i].ID
    THEN Concat(<< <<44, 10, 9, 67, 79, 78, 83, 84, 82, 65, 73, 78, 84, 32>>, quoteNames(<<desc.PrimaryIndex.Name>>),
                   <<32, 80, 82, 73, 77, 65, 82, 89, 32, 75, 69, 89, 32, 40>>, quoteNames(desc.PrimaryIndex.ColumnNames), <<41>> >>)
    ELSE <<>>

\* The text written for one secondary index, given its interleave clause.
IndexClause(idx, interleave) ==
    Concat(<< <<44, 10, 9>>,
              IF idx.Unique THEN <<85, 78, 73, 81, 85, 69, 32>> ELSE <<>>,
              <<73, 78, 68, 69, 88, 32>>, quoteNames(<<idx.Name>>),
              <<32, 40>>, quoteNames(idx.ColumnNames), <<41>>,
              IF Len(idx.StoreColumnNames) > 0
              THEN <<32, 83, 84, 79, 82, 73, 78, 71, 32, 40>> \o quoteNames(idx.StoreColumnNames) \o <<41>>
              ELSE <<>>,
              interleave >>)

\* The loop over desc.Indexes from position i, k descriptor lookups made so far.
RECURSIVE IndexClauses(_, _, _, _)
IndexClauses(idxs, i, k, f) ==
    IF i > Len(idxs) THEN [err |-> NoErr, calls |-> k, clauses |-> <<>>]
    ELSE LET il == showCreateInterleave(idxs[i], k + 1, f) IN
         IF il.err # NoErr THEN [err |-> il.err, calls |-> k + il.calls, clauses |-> <<>>]
         ELSE LET rest == IndexClauses(idxs, i + 1, k + il.calls, f) IN
              [err |-> rest.err,
               calls |-> rest.calls,
               clauses |-> <<IndexClause(idxs[i], il.s)>> \o rest.clauses]

\* The text written for one column family.
FamilyClause(desc, fam) ==
    LET idxs == SelectSeqIdx([i \in 1..Len(fam.ColumnIDs) |-> i],
                             LAMBDA i : HasActiveColumn(desc, fam.ColumnIDs[i]))
        activeColumnNames == [j \in 1..Len(idxs) |-> fam.ColumnNames[idxs[j]]]
    IN Concat(<< <<44, 10, 9, 70, 65, 77, 73, 76, 89, 32>>, quoteNames(<<fam.Name>>),
                 <<32, 40>>, quoteNames(activeColumnNames), <<41>> >>)

\* The text written for one check constraint.
CheckClause(e) ==
    Concat(<< <<44, 10, 9>>,
              IF Len(e.Name) > 0 THEN <<67, 79, 78, 83, 84, 82, 65, 73, 78, 84, 32>> \o quoteNames(<<e.Name>>) \o <<32>>
              ELSE <<>>,
              <<67, 72, 69, 67, 75, 32, 40>>, e.Expr, <<41>> >>)

\* The pieces the constructor writes to buf, in the order it writes them, up
\* to and including the closing parenthesis (given the index clauses).
CreateTableClauses(t, desc, indexClauses) ==
    LET cols == VisibleColumns(desc) IN
    << <<67, 82, 69, 65, 84, 69, 32, 84, 65, 66, 76, 69, 32>> \o quoteNames(<<NameAsWritten(t)>>) \o <<32, 40>> >>
    \o [i \in 1..Len(cols) |-> ColumnClause(cols[i], i)]
    \o (IF PrimaryClause(desc) = <<>> THEN <<>> ELSE <<PrimaryClause(desc)>>)
    \o indexClauses
    \o [i \in 1..Len(desc.Families) |-> FamilyClause(desc, desc.Families[i])]
    \o [i \in 1..Len(desc.Checks) |-> CheckClause(desc.Checks[i])]
    \o << <<10, 41>> >>

\* The constructor of planner.ShowCreateTable.
ShowCreateTableConstructor(t, desc, evalDb, skip, f) ==
    LET ixs == IndexClauses(desc.Indexes, 1, 0, f)
        pil == showCreateInterleave(desc.PrimaryIndex, ixs.calls + 1, f)
        text == Concat(CreateTableClauses(t, desc, ixs.clauses)) \o pil.s
        a == AddRows(<<>>, << <<NameAsWritten(t), text>> >>, f)
    IN
    IF ixs.err # NoErr
    THEN Ret(ixs.err, "nil", <<>>, <<>>, "closed", <<>>, evalDb, skip)
    ELSE IF pil.err # NoErr
    THEN Ret(pil.err, "nil", <<>>, <<>>, "closed", <<>>, evalDb, skip)
    ELSE IF a.err # NoErr
    THEN Ret(a.err, "nil", a.rows, <<>>, "closed", <<>>, evalDb, skip)
    ELSE Ret(NoErr, "valuesNode", a.rows, <<>>, "open", <<>>, evalDb, skip)

----------------------------------------------------------------------------
(* SHOW CREATE VIEW.                                                        *)

\* {View, CreateView}
ShowCreateViewColumns == << <<86, 105, 101, 119>>, <<67, 114, 101, 97, 116, 101, 86, 105, 101, 119>> >>

\* "SHOW CREATE VIEW "
ShowCreateViewPrefix == <<83, 72, 79, 87, 32, 67, 82, 69, 65, 84, 69, 32, 86, 73, 69, 87, 32>>

\* Stored view queries: "SELECT a, b FROM test.t", "SELECT b, a FROM test.t",
\* "SELECT a FROM test.t", "SELECT a, b, c FROM test.u", a text that is not a
\* statement ("SELEC a") and a statement that is not a select
\* ("DELETE FROM test.t").
q_a_b == <<83, 69, 76, 69, 67, 84, 32, 97, 44, 32, 98, 32, 70, 82, 79, 77, 32, 116, 101, 115, 116, 46, 116>>
q_b_a == <<83, 69, 76, 69, 67, 84, 32, 98, 44, 32, 97, 32, 70, 82, 79, 77, 32, 116, 101, 115, 116, 46, 116>>
q_a == <<83, 69, 76, 69, 67, 84, 32, 97, 32, 70, 82, 79, 77, 32, 116, 101, 115, 116, 46, 116>>
q_a_b_c == <<83, 69, 76, 69, 67, 84, 32, 97, 44, 32, 98, 44, 32, 99, 32, 70, 82, 79, 77, 32, 116, 101, 115, 116, 46, 117>>
q_syntax == <<83, 69, 76, 69, 67, 32, 97>>
q_delete == <<68, 69, 76, 69, 84, 69, 32, 70, 82, 79, 77, 32, 116, 101, 115, 116, 46, 116>>

\* parser.ParseOneTraditional(sql) for the stored view queries: whether the
\* text parses and whether the statement is a select.
ParseOneTraditional(sql) ==
    IF sql \in {q_a_b, q_b_a, q_a, q_a_b_c} THEN [err |-> NoErr, isSelect |-> TRUE]
    ELSE IF sql = q_delete THEN [err |-> NoErr, isSelect |-> FALSE]
    ELSE [err |-> Err("syntax", sql), isSelect |-> FALSE]

\* sourcePlan.Columns() of p.Select for the stored view queries: the names of
\* the columns the query yields.
SelectColumns(sql) ==
    CASE sql = q_a_b -> <<col_a, col_b>>
      [] sql = q_b_a -> <<col_b, col_a>>
      [] sql = q_a -> <<col_a>>
      [] sql = q_a_b_c -> <<col_a, col_b, col_c>>
      [] OTHER -> <<>>

\* planner.ShowCreateView up to the return of the delayedNode.
ShowCreateViewPlan(n, s) ==
    LET norm == NormalizeWithDatabaseName(n.View, s.Database)
        got == mustGetViewDesc(norm.tn)
        priv == anyPrivilege(norm.tn, s.User)
    IN
    IF norm.err # NoErr THEN Built(norm.err, NoPlan)
    ELSE IF got.err # NoErr THEN Built(got.err, NoPlan)
    ELSE IF priv # NoErr THEN Built(priv, NoPlan)
    ELSE Built(NoErr, [name |-> ShowCreateViewPrefix \o TableNameString(norm.tn),
                       tn |-> norm.tn,
                       desc |-> DescOf(norm.tn.db, norm.tn.table), kind |-> "ShowCreateView",
                       columns |-> ShowCreateViewColumns])

\* The deferred func of the ShowCreateView constructor:
\* p.skipSelectPrivilegeChecks = false.
ShowCreateViewDeferred(before, current) == FALSE

\* customColNames after the loop over sourcePlan.Columns(): "panic" when the
\* loop indexes desc.Columns out of range before it finds a difference.
RECURSIVE CustomColNames(_, _, _)
CustomColNames(planned, recorded, i) ==
    IF i > Len(planned) THEN "false"
    ELSE IF i > Len(recorded) THEN "panic"
    ELSE IF planned[i] # recorded[i].Name THEN "true"
    ELSE CustomColNames(planned, recorded, i + 1)

\* The text of the CREATE VIEW statement.
CreateViewText(v, desc, customColNames) ==
    Concat(<< <<67, 82, 69, 65, 84, 69, 32, 86, 73, 69, 87, 32>>, quoteNames(<<NameAsWritten(v)>>), <<32>>,
              IF customColNames
              THEN <<40>> \o Join([i \in 1..Len(desc.Columns) |-> desc.Columns[i].Name],
                                 CommaSpace) \o <<41, 32>>
              ELSE <<>>,
              <<65, 83, 32>>, desc.ViewQuery >>)

\* The constructor of planner.ShowCreateView.  p.Select is the first
\* descriptor-layer call of the callback.
ShowCreateViewConstructor(v, tn, desc, evalDb, skip, f) ==
    LET parsed == ParseOneTraditional(desc.ViewQuery)
        after == ShowCreateViewDeferred(skip, TRUE)
        custom == CustomColNames(SelectColumns(desc.ViewQuery), desc.Columns, 1)
        a == AddRows(<<>>, << <<NameAsWritten(v), CreateViewText(v, desc, custom = "true")>> >>, f)
    IN
    IF parsed.err # NoErr
    THEN Ret(Err("ParseView", TableNameString(tn)), "nil", <<>>, <<>>, "open", <<>>, evalDb, skip)
    ELSE IF ~parsed.isSelect
    THEN Ret(Err("ViewNotSelect", TableNameString(tn)), "nil", <<>>, <<>>, "open", <<>>,
             evalDb, skip)
    ELSE IF DescFails(1, f)
    THEN Ret(CallErr("desc", 1), "nil", <<>>, <<>>, "open", <<>>, evalDb, after)
    ELSE IF custom = "panic"
    THEN Ret(Err("panic", TableNameString(tn)), "nil", <<>>, <<>>, "open", <<>>, evalDb, after)
    ELSE IF a.err # NoErr
    THEN Ret(a.err, "nil", a.rows, <<>>, "closed", <<>>, evalDb, after)
    ELSE Ret(NoErr, "valuesNode", a.rows, <<>>, "open", <<>>, evalDb, after)

----------------------------------------------------------------------------
(* SHOW GRANTS.                                                             *)

\* Longest list of database targets or table patterns in one SHOW GRANTS.
MaxTargets == 2

\* {Database | Table, User, Privileges}
ShowGrantsColumns(objectType) == << objectType, <<85, 115, 101, 114>>, <<80, 114, 105, 118, 105, 108, 101, 103, 101, 115>> >>

\* "SHOW GRANTS"
ShowGrantsName == <<83, 72, 79, 87, 32, 71, 82, 65, 78, 84, 83>>

\* A list that may be nil.
Nil == [isNil |-> TRUE, list |-> <<>>]

List(l) == [isNil |-> FALSE, list |-> l]

\* As ShowGrantsPlan, without the test for a nil target list.
ShowGrantsPlanOfAnyTargets(n) ==
    Built(NoErr, [name |-> ShowGrantsName, kind |-> "ShowGrants",
                  n |-> n,
                  columns |-> ShowGrantsColumns(IF ~n.Targets.Tables.isNil
                                                THEN <<84, 97, 98, 108, 101>> ELSE <<68, 97, 116, 97, 98, 97, 115, 101>>)])

\* planner.ShowGrants up to the return of the delayedNode.
ShowGrantsPlan(n) ==
    IF n.Targets.isNil THEN Built(Err("NotImplemented", <<>>), NoPlan)
    ELSE Built(NoErr, [name |-> ShowGrantsName, kind |-> "ShowGrants",
                       n |-> n,
                       columns |-> ShowGrantsColumns(IF ~n.Targets.Tables.isNil
                                                     THEN <<84, 97, 98, 108, 101>> ELSE <<68, 97, 116, 97, 98, 97, 115, 101>>)])

\* A sort stage of SHOW GRANTS that orders by the object name alone.
ShowGrantsOrderingByObject == <<0>>

\* The ordering of the sort stage of SHOW GRANTS: columns 0, 1, 2 ascending.
ShowGrantsOrdering == <<0, 1, 2>>

\* "*"
Star == <<42>>

\* p.expandTableGlob(pattern): a table name is qualified with the session's
\* database; db.* is every table of the database, which must exist.
expandTableGlob(pattern, s) ==
    IF pattern.table = Star
    THEN IF pattern.db \notin Schemata
         THEN [err |-> NewUndefinedDatabaseError(pattern.db), tables |-> <<>>]
         ELSE LET names == getTables(pattern.db) IN
              [err |-> NoErr,
               tables |-> [i \in 1..Len(names) |-> [db |-> pattern.db, table |-> names[i][1]]]]
    ELSE LET norm == NormalizeWithDatabaseName(pattern, s.Database) IN
         [err |-> norm.err, tables |-> IF norm.err = NoErr THEN <<norm.tn>> ELSE <<>>]

\* The rows of a stored table in the order this scan meets them.
Scan(stored, order) ==
    IF order = "forward" THEN stored
    ELSE [i \in 1..Len(stored) |-> stored[Len(stored) + 1 - i]]

\* The values bound to the placeholders $h of holders; "unbound" for a
\* placeholder beyond the parameters.
Bound(holders, params) ==
    {IF h <= Len(params) THEN params[h] ELSE <<-1>> : h \in {holders[i] : i \in 1..Len(holders)}}

\* SELECT TABLE_SCHEMA, GRANTEE, PRIVILEGE_TYPE FROM information_schema.schema_privileges
\* WHERE TABLE_SCHEMA IN (holders) [AND GRANTEE IN(granteeHolders)].  An empty
\* IN list is a syntax error.
schemaGrants(holders, grantees, params, order) ==
    LET dbs == Bound(holders, params)
        users == Bound(grantees.list, params)
        Match(r) == r[1] \in dbs /\ (grantees.isNil \/ r[2] \in users)
    IN IF holders = <<>> \/ (~grantees.isNil /\ grantees.list = <<>>)
       THEN [err |-> Err("syntax", <<>>), rows |-> <<>>]
       ELSE [err |-> NoErr, rows |-> SelectSeqIdx(Scan(SchemaPrivileges, order), Match)]

\* SELECT TABLE_NAME, GRANTEE, PRIVILEGE_TYPE FROM information_schema.table_privileges
\* WHERE (TABLE_SCHEMA, TABLE_NAME) IN (holders) [AND GRANTEE IN(granteeHolders)].
tableGrants(holders, grantees, params, order) ==
    LET pairs == {<<IF holders[i][1] <= Len(params) THEN params[holders[i][1]] ELSE <<-1>>,
                    IF holders[i][2] <= Len(params) THEN params[holders[i][2]] ELSE <<-1>> >>
                  : i \in 1..Len(holders)}
        users == Bound(grantees.list, params)
        Match(r) == <<r[1], r[2]>> \in pairs /\ (grantees.isNil \/ r[3] \in users)
        found == SelectSeqIdx(Scan(TablePrivileges, order), Match)
    IN IF holders = <<>> \/ (~grantees.isNil /\ grantees.list = <<>>)
       THEN [err |-> Err("syntax", <<>>), rows |-> <<>>]
       ELSE [err |-> NoErr,
             rows |-> [i \in 1..Len(found) |-> <<found[i][2], found[i][3], found[i][4]>>]]

\* As GranteeHolders, numbering the grantees from $1 again.
GranteeHoldersRestarting(grantees, paramSeq) ==
    IF grantees.isNil THEN Nil
    ELSE List([i \in 1..Len(grantees.list) |-> i])

\* The placeholders and parameters the grantee filter adds: one $paramSeq per
\* grantee, after the target parameters.
GranteeHolders(grantees, paramSeq) ==
    IF grantees.isNil THEN Nil
    ELSE List([i \in 1..Len(grantees.list) |-> paramSeq + i - 1])

GranteeParams(grantees) == IF grantees.isNil THEN <<>> ELSE grantees.list

\* fmt.Sprintf("%d", n) for a natural number.
RECURSIVE Itoa(_)
Itoa(n) == IF n < 10 THEN <<48 + n>> ELSE Itoa(n \div 10) \o <<48 + (n % 10)>>

\* fmt.Sprintf("$%d", paramSeq)
Holder(paramSeq) == <<36>> \o Itoa(paramSeq)

\* fmt.Sprintf("($%d,$%d)", paramSeq, paramSeq+1)
PairHolder(pair) == <<40>> \o Holder(pair[1]) \o <<44>> \o Holder(pair[2]) \o <<41>>

\* fmt.Sprintf(`%s AND GRANTEE IN(%s)`, ..., strings.Join(paramHolders, ","))
\* when n.Grantees != nil.
GranteeFilterText(grantees) ==
    IF grantees.isNil THEN <<>>
    ELSE <<32, 65, 78, 68, 32, 71, 82, 65, 78, 84, 69, 69, 32, 73, 78, 40>>
         \o Join([i \in 1..Len(grantees.list) |-> Holder(grantees.list[i])], <<44>>)
         \o <<41>>

\* The text of the schemaGrants statement:
\* SELECT TABLE_SCHEMA AS "Database", GRANTEE AS "User", PRIVILEGE_TYPE AS
\* "Privileges" FROM information_schema.schema_privileges WHERE TABLE_SCHEMA
\* IN (holders), then the grantee filter.
schemaGrantsText(holders, grantees) ==
    <<83, 69, 76, 69, 67, 84, 32, 84, 65, 66, 76, 69, 95, 83, 67, 72, 69, 77, 65, 32, 65, 83, 32, 34, 68, 97, 116, 97, 98, 97, 115, 101, 34, 44, 32, 71, 82, 65, 78, 84, 69, 69, 32, 65, 83, 32, 34, 85, 115, 101, 114, 34, 44, 10, 9, 9, 9, 9, 9, 9, 9, 9, 9, 80, 82, 73, 86, 73, 76, 69, 71, 69, 95, 84, 89, 80, 69, 32, 65, 83, 32, 34, 80, 114, 105, 118, 105, 108, 101, 103, 101, 115, 34, 32, 70, 82, 79, 77, 32, 105, 110, 102, 111, 114, 109, 97, 116, 105, 111, 110, 95, 115, 99, 104, 101, 109, 97, 46, 115, 99, 104, 101, 109, 97, 95, 112, 114, 105, 118, 105, 108, 101, 103, 101, 115, 10, 9, 9, 9, 9, 9, 9, 9, 9, 9, 87, 72, 69, 82, 69, 32, 84, 65, 66, 76, 69, 95, 83, 67, 72, 69, 77, 65, 32, 73, 78, 32, 40>>
    \o Join([i \in 1..Len(holders) |-> Holder(holders[i])], <<44>>)
    \o <<41>>
    \o GranteeFilterText(grantees)

\* The text of the tableGrants statement:
\* SELECT TABLE_NAME, GRANTEE, PRIVILEGE_TYPE FROM
\* information_schema.table_privileges WHERE (TABLE_SCHEMA, TABLE_NAME) IN
\* (holders), then the grantee filter.
tableGrantsText(holders, grantees) ==
    <<83, 69, 76, 69, 67, 84, 32, 84, 65, 66, 76, 69, 95, 78, 65, 77, 69, 44, 32, 71, 82, 65, 78, 84, 69, 69, 44, 32, 80, 82, 73, 86, 73, 76, 69, 71, 69, 95, 84, 89, 80, 69, 32, 70, 82, 79, 77, 32, 105, 110, 102, 111, 114, 109, 97, 116, 105, 111, 110, 95, 115, 99, 104, 101, 109, 97, 46, 116, 97, 98, 108, 101, 95, 112, 114, 105, 118, 105, 108, 101, 103, 101, 115, 10, 9, 9, 9, 9, 9, 9, 9, 9, 9, 87, 72, 69, 82, 69, 32, 40, 84, 65, 66, 76, 69, 95, 83, 67, 72, 69, 77, 65, 44, 32, 84, 65, 66, 76, 69, 95, 78, 65, 77, 69, 41, 32, 73, 78, 32, 40>>
    \o Join([i \in 1..Len(holders) |-> PairHolder(holders[i])], <<44>>)
    \o <<41>>
    \o GranteeFilterText(grantees)

\* As ProbeDatabases, binding every database without probing it.
ProbeDatabasesUnchecked(dbs, i, k, evalDb, f) ==
    [err |-> NoErr, log |-> <<>>, holders |-> [j \in 1..Len(dbs) |-> j], params |-> dbs]

\* The loop over n.Targets.Databases from position i, with k catalog reads
\* issued so far: the error, the reads, the placeholders and the parameters.
RECURSIVE ProbeDatabases(_, _, _, _, _)
ProbeDatabases(dbs, i, k, evalDb, f) ==
    IF i > Len(dbs) THEN [err |-> NoErr, log |-> <<>>, holders |-> <<>>, params |-> <<>>]
    ELSE LET r == Read("checkSchema", <<dbs[i]>>, TRUE, evalDb) IN
         IF ReadFails(k + 1, f)
         THEN [err |-> CallErr("read", k + 1), log |-> <<r>>, holders |-> <<>>, params |-> <<>>]
         ELSE IF Len(checkSchema(dbs[i])) = 0
         THEN [err |-> NewUndefinedDatabaseError(dbs[i]), log |-> <<r>>,
               holders |-> <<>>, params |-> <<>>]
         ELSE LET rest == ProbeDatabases(dbs, i + 1, k + 1, evalDb, f) IN
              [err |-> rest.err, log |-> <<r>> \o rest.log,
               holders |-> <<i>> \o rest.holders, params |-> <<dbs[i]>> \o rest.params]

\* The loop over the tables one pattern expands to, from position i, with k
\* catalog reads issued and paramSeq the next placeholder.
RECURSIVE ProbeTables(_, _, _, _, _, _)
ProbeTables(tables, i, k, paramSeq, evalDb, f) ==
    IF i > Len(tables) THEN [err |-> NoErr, log |-> <<>>, holders |-> <<>>, params |-> <<>>]
    ELSE LET r == Read("checkTable", <<tables[i].db, tables[i].table>>, TRUE, evalDb) IN
         IF ReadFails(k + 1, f)
         THEN [err |-> CallErr("read", k + 1), log |-> <<r>>, holders |-> <<>>, params |-> <<>>]
         ELSE IF Len(checkTable(tables[i].db, tables[i].table)) = 0
         THEN [err |-> NewUndefinedTableError(TableNameString(tables[i])), log |-> <<r>>,
               holders |-> <<>>, params |-> <<>>]
         ELSE LET rest == ProbeTables(tables, i + 1, k + 1, paramSeq + 2, evalDb, f) IN
              [err |-> rest.err, log |-> <<r>> \o rest.log,
               holders |-> << <<paramSeq, paramSeq + 1>> >> \o rest.holders,
               params |-> <<tables[i].db, tables[i].table>> \o rest.params]

\* The loop over n.Targets.Tables from position i; expandTableGlob is the
\* i-th descriptor-layer call of the callback.
RECURSIVE ProbePatterns(_, _, _, _, _, _, _)
ProbePatterns(patterns, i, k, paramSeq, s, evalDb, f) ==
    IF i > Len(patterns) THEN [err |-> NoErr, log |-> <<>>, holders |-> <<>>, params |-> <<>>]
    ELSE LET expanded == expandTableGlob(patterns[i], s)
             probed == ProbeTables(expanded.tables, 1, k, paramSeq, evalDb, f)
             rest == ProbePatterns(patterns, i + 1, k + Len(probed.log),
                                   paramSeq + 2 * Len(probed.holders), s, evalDb, f)
         IN
         \* tableTarget.NormalizeTablePattern()
         IF ~patterns[i].valid
         THEN [err |-> Err("InvalidPattern", patterns[i].table), log |-> <<>>,
               holders |-> <<>>, params |-> <<>>]
         ELSE IF DescFails(i, f)
         THEN [err |-> CallErr("desc", i), log |-> <<>>, holders |-> <<>>, params |-> <<>>]
         ELSE IF expanded.err # NoErr
         THEN [err |-> expanded.err, log |-> <<>>, holders |-> <<>>, params |-> <<>>]
         ELSE IF probed.err # NoErr THEN probed
         ELSE [err |-> rest.err, log |-> probed.log \o rest.log,
               holders |-> probed.holders \o rest.holders,
               params |-> probed.params \o rest.params]

\* The constructor of planner.ShowGrants; order is the order in which the
\* privilege tables are scanned.
ShowGrantsConstructor(n, s, evalDb, skip, f, order) ==
    LET \* the database targets
        doDb == ~n.Targets.Databases.isNil
        pd == ProbeDatabases(n.Targets.Databases.list, 1, 0, evalDb, f)
        dbParams == pd.params \o GranteeParams(n.Grantees)
        dbGrantees == GranteeHolders(n.Grantees, Len(pd.holders) + 1)
        dbQuery == schemaGrants(pd.holders, dbGrantees,
                                dbParams, order)
        dbRead == Query("schemaGrants", schemaGrantsText(pd.holders, dbGrantees), dbParams, evalDb)
        dbAdd == AddRows(<<>>, dbQuery.rows, f)
        \* what the database block leaves behind when it does not fail
        log1 == IF doDb THEN Append(pd.log, dbRead) ELSE <<>>
        rows1 == IF doDb THEN dbAdd.rows ELSE <<>>
        \* the table targets
        doTables == ~n.Targets.Tables.isNil
        pt == ProbePatterns(n.Targets.Tables.list, 1, Len(log1), 1, s, evalDb, f)
        tblParams == pt.params \o GranteeParams(n.Grantees)
        tblGrantees == GranteeHolders(n.Grantees, 2 * Len(pt.holders) + 1)
        tblQuery == tableGrants(pt.holders, tblGrantees,
                                tblParams, order)
        tblRead == Query("tableGrants", tableGrantsText(pt.holders, tblGrantees), tblParams, evalDb)
        tblAdd == AddRows(rows1, tblQuery.rows, f)
        log2 == IF doTables THEN log1 \o Append(pt.log, tblRead) ELSE log1
        rows2 == IF doTables THEN tblAdd.rows ELSE rows1
        Fail(err, rows, log) == Ret(err, "nil", rows, <<>>, "closed", log, evalDb, skip)
    IN
    IF doDb /\ pd.err # NoErr THEN Fail(pd.err, <<>>, pd.log)
    ELSE IF doDb /\ ReadFails(Len(log1), f) THEN Fail(CallErr("read", Len(log1)), <<>>, log1)
    ELSE IF doDb /\ dbQuery.err # NoErr THEN Fail(dbQuery.err, <<>>, log1)
    ELSE IF doDb /\ dbAdd.err # NoErr THEN Fail(dbAdd.err, dbAdd.rows, log1)
    ELSE IF doTables /\ pt.err # NoErr THEN Fail(pt.err, rows1, log1 \o pt.log)
    ELSE IF doTables /\ ReadFails(Len(log2), f) THEN Fail(CallErr("read", Len(log2)), rows1, log2)
    ELSE IF doTables /\ tblQuery.err # NoErr THEN Fail(tblQuery.err, rows1, log2)
    ELSE IF doTables /\ tblAdd.err # NoErr THEN Fail(tblAdd.err, tblAdd.rows, log2)
    ELSE Ret(NoErr, "selectTopNode", rows2, ShowGrantsOrdering, "open", log2, evalDb, skip)

----------------------------------------------------------------------------
(* SHOW INDEX.                                                              *)

\* {Table, Name, Unique, Seq, Column, Direction, Storing}
ShowIndexColumns ==
    << <<84, 97, 98, 108, 101>>, <<78, 97, 109, 101>>, <<85, 110, 105, 113, 117, 101>>, <<83, 101, 113>>, <<67, 111, 108, 117, 109, 110>>, <<68, 105, 114, 101, 99, 116, 105, 111, 110>>, <<83, 116, 111, 114, 105, 110, 103>> >>

\* "SHOW INDEX FROM "
ShowIndexPrefix == <<83, 72, 79, 87, 32, 73, 78, 68, 69, 88, 32, 70, 82, 79, 77, 32>>

\* planner.ShowIndex up to the return of the delayedNode.
ShowIndexPlan(n, s) ==
    LET norm == NormalizeWithDatabaseName(n.Table, s.Database)
        got == mustGetTableDesc(norm.tn)
        priv == anyPrivilege(norm.tn, s.User)
    IN
    IF norm.err # NoErr THEN Built(norm.err, NoPlan)
    ELSE IF got.err # NoErr THEN Built(got.err, NoPlan)
    ELSE IF priv # NoErr THEN Built(priv, NoPlan)
    ELSE Built(NoErr, [name |-> ShowIndexPrefix \o TableNameString(norm.tn),
                       tn |-> norm.tn,
                       desc |-> DescOf(norm.tn.db, norm.tn.table), kind |-> "ShowIndex",
                       columns |-> ShowIndexColumns])

\* IndexDescriptor_Direction.String()
DirectionString(d) == IF d = "ASC" THEN <<65, 83, 67>> ELSE <<68, 69, 83, 67>>

\* As IndexRows, with the storing columns appended before the key columns.
IndexRowsStoringFirst(tn, index) ==
    LET ns == Len(index.StoreColumnNames) IN
    [j \in 1..ns |->
        <<tn.table, index.Name, index.Unique, j, index.StoreColumnNames[j],
          <<78, 47, 65>>, TRUE>>]
    \o [i \in 1..Len(index.ColumnNames) |->
        <<tn.table, index.Name, index.Unique, ns + i, index.ColumnNames[i],
          DirectionString(index.ColumnDirections[i]), FALSE>>]

\* The rows the constructor appends for one index: the key columns, then the
\* storing columns, numbered by one sequence counter that starts at 1.
IndexRows(tn, index) ==
    LET nk == Len(index.ColumnNames) IN
    [i \in 1..nk |->
        <<tn.table, index.Name, index.Unique, i, index.ColumnNames[i],
          DirectionString(index.ColumnDirections[i]), FALSE>>]
    \o [j \in 1..Len(index.StoreColumnNames) |->
        <<tn.table, index.Name, index.Unique, nk + j, index.StoreColumnNames[j],
          <<78, 47, 65>>, TRUE>>]

\* The rows for the primary index followed by those for each index of
\* desc.Indexes, in order.
RECURSIVE AllIndexRows(_, _)
AllIndexRows(tn, indexes) ==
    IF indexes = <<>> THEN <<>>
    ELSE IndexRows(tn, indexes[1]) \o AllIndexRows(tn, Tail(indexes))

\* The constructor of planner.ShowIndex.
ShowIndexConstructor(tn, desc, evalDb, skip, f) ==
    LET a == AddRows(<<>>, AllIndexRows(tn, <<desc.PrimaryIndex>> \o desc.Indexes), f) IN
    IF a.err # NoErr
    THEN Ret(a.err, "nil", a.rows, <<>>, "closed", <<>>, evalDb, skip)
    ELSE Ret(NoErr, "valuesNode", a.rows, <<>>, "open", <<>>, evalDb, skip)

----------------------------------------------------------------------------
(* SHOW CONSTRAINTS.                                                        *)

\* {Table, Name, Type, Column(s), Details}
ShowConstraintsColumns == << <<84, 97, 98, 108, 101>>, <<78, 97, 109, 101>>, <<84, 121, 112, 101>>, <<67, 111, 108, 117, 109, 110, 40, 115, 41>>, <<68, 101, 116, 97, 105, 108, 115>> >>

\* "SHOW CONSTRAINTS FROM "
ShowConstraintsPrefix == <<83, 72, 79, 87, 32, 67, 79, 78, 83, 84, 82, 65, 73, 78, 84, 83, 32, 70, 82, 79, 77, 32>>

\* One entry of the constraint info.  hasColumns is Columns != nil.
Constraint(kind, hasColumns, columns, details, unvalidated) ==
    [Columns |-> columns, hasColumns |-> hasColumns, Kind |-> kind,
     Details |-> details, Unvalidated |-> unvalidated]

\* "ix", "ck", "fk"
name_ix == <<105, 120>>
name_ck == <<99, 107>>
name_fk == <<102, 107>>

\* desc.GetConstraintInfo(p.txn): the mapping from constraint name to detail.
GetConstraintInfo(desc) ==
    CASE desc.ID = 51 ->
           (name_primary :> Constraint(<<80, 82, 73, 77, 65, 82, 89, 32, 75, 69, 89>>, TRUE, <<col_a>>, <<>>, FALSE))
      [] desc.ID = 52 ->
           (name_primary :> Constraint(<<80, 82, 73, 77, 65, 82, 89, 32, 75, 69, 89>>, TRUE, <<col_rowid>>, <<>>, FALSE))
           @@ (name_ix :> Constraint(<<85, 78, 73, 81, 85, 69>>, TRUE, <<col_a, col_b>>, <<>>, FALSE))
           @@ (name_ck :> Constraint(<<67, 72, 69, 67, 75>>, FALSE, <<>>, <<97, 32, 62, 32, 48>>, TRUE))
      [] desc.ID = 53 ->
           (name_primary :> Constraint(<<80, 82, 73, 77, 65, 82, 89, 32, 75, 69, 89>>, TRUE, <<col_a, col_b>>, <<>>, FALSE))
           @@ (name_fk :> Constraint(<<70, 79, 82, 69, 73, 71, 78, 32, 75, 69, 89>>, TRUE, <<col_a>>, <<116, 101, 115, 116, 46, 116, 46, 91, 97, 93>>, TRUE))
      [] OTHER -> <<>>

\* planner.ShowConstraints up to the return of the delayedNode.
ShowConstraintsPlan(n, s) ==
    LET norm == NormalizeWithDatabaseName(n.Table, s.Database)
        got == mustGetTableDesc(norm.tn)
        priv == anyPrivilege(norm.tn, s.User)
    IN
    IF norm.err # NoErr THEN Built(norm.err, NoPlan)
    ELSE IF got.err # NoErr THEN Built(got.err, NoPlan)
    ELSE IF priv # NoErr THEN Built(priv, NoPlan)
    ELSE Built(NoErr, [name |-> ShowConstraintsPrefix \o TableNameString(norm.tn),
                       tn |-> norm.tn,
                       desc |-> DescOf(norm.tn.db, norm.tn.table), kind |-> "ShowConstraints",
                       columns |-> ShowConstraintsColumns])

\* " (UNVALIDATED)"
UnvalidatedSuffix == <<32, 40, 85, 78, 86, 65, 76, 73, 68, 65, 84, 69, 68, 41>>

\* The row built for the constraint called name.
ConstraintRow(tn, name, c) ==
    <<tn.table,
      name,
      IF c.Unvalidated THEN c.Kind \o UnvalidatedSuffix ELSE c.Kind,
      IF c.hasColumns THEN Join(c.Columns, CommaSpace) ELSE DNull,
      IF c.Details # <<>> THEN c.Details ELSE DNull>>

\* A sort stage of SHOW CONSTRAINTS that orders by the table name alone.
ShowConstraintsOrderingByTable == <<0>>

\* The ordering of the sort stage of SHOW CONSTRAINTS: columns 0, 1 ascending.
ShowConstraintsOrdering == <<0, 1>>

\* The orders in which a range over the map info may visit its keys.
IterationOrders(info) ==
    LET keys == DOMAIN info
        n == Cardinality(keys)
    IN {q \in [1..n -> keys] : \A i, j \in 1..n : i # j => q[i] # q[j]}

\* The constructor of planner.ShowConstraints; iter is the order in which the
\* range over info visits the names.  GetConstraintInfo is the first
\* descriptor-layer call of the callback.
ShowConstraintsConstructor(tn, desc, evalDb, skip, f, iter) ==
    LET info == GetConstraintInfo(desc)
        a == AddRows(<<>>, [i \in 1..Len(iter) |-> ConstraintRow(tn, iter[i], info[iter[i]])], f)
    IN
    IF DescFails(1, f)
    THEN Ret(CallErr("desc", 1), "nil", <<>>, <<>>, "open", <<>>, evalDb, skip)
    ELSE IF a.err # NoErr
    THEN Ret(a.err, "nil", a.rows, <<>>, "closed", <<>>, evalDb, skip)
    ELSE Ret(NoErr, "selectTopNode", a.rows, ShowConstraintsOrdering, "open", <<>>,
             evalDb, skip)

----------------------------------------------------------------------------
(* HELP.                                                                    *)

\* {Function, Signature, Category, Details}
HelpColumns == << <<70, 117, 110, 99, 116, 105, 111, 110>>, <<83, 105, 103, 110, 97, 116, 117, 114, 101>>, <<67, 97, 116, 101, 103, 111, 114, 121>>, <<68, 101, 116, 97, 105, 108, 115>> >>

\* "HELP "
HelpPrefix == <<72, 69, 76, 80, 32>>

\* "length", "now"
fn_length == <<108, 101, 110, 103, 116, 104>>
fn_now == <<110, 111, 119>>

\* parser.Builtins: for each function name its overloads, each with its
\* Signature(), Category() and Info.
Builtins ==
    (fn_length :> << [Signature |-> <<108, 101, 110, 103, 116, 104, 40, 115, 116, 114, 105, 110, 103, 41, 32, 45, 62, 32, 105, 110, 116>>, Category |-> <<83, 116, 114, 105, 110, 103>>,
                      Info |-> <<67, 97, 108, 99, 117, 108, 97, 116, 101, 115, 32, 116, 104, 101, 32, 110, 117, 109, 98, 101, 114, 32, 111, 102, 32, 99, 104, 97, 114, 97, 99, 116, 101, 114, 115, 46>>],
                     [Signature |-> <<108, 101, 110, 103, 116, 104, 40, 98, 121, 116, 101, 115, 41, 32, 45, 62, 32, 105, 110, 116>>, Category |-> <<83, 116, 114, 105, 110, 103>>,
                      Info |-> <<67, 97, 108, 99, 117, 108, 97, 116, 101, 115, 32, 116, 104, 101, 32, 110, 117, 109, 98, 101, 114, 32, 111, 102, 32, 98, 121, 116, 101, 115, 46>>] >>)
    @@ (fn_now :> << [Signature |-> <<110, 111, 119, 40, 41, 32, 45, 62, 32, 116, 105, 109, 101, 115, 116, 97, 109, 112>>, Category |-> <<68, 97, 116, 101, 32, 97, 110, 100, 32, 84, 105, 109, 101>>,
                      Info |-> <<82, 101, 116, 117, 114, 110, 115, 32, 116, 104, 101, 32, 99, 117, 114, 114, 101, 110, 116, 32, 116, 114, 97, 110, 115, 97, 99, 116, 105, 111, 110, 39, 115, 32, 116, 105, 109, 101, 115, 116, 97, 109, 112, 46>>] >>)

\* As HelpPlan, with the name in the letter case the statement wrote.
HelpPlanCaseSensitive(n) ==
    LET name == QuoteName(n.Name) IN
    Built(NoErr, [name |-> HelpPrefix \o name, kind |-> "Help", columns |-> HelpColumns,
                  fn |-> name])

\* planner.Help up to the return of the delayedNode.
HelpPlan(n) ==
    LET name == ToLower(QuoteName(n.Name)) IN
    Built(NoErr, [name |-> HelpPrefix \o name, kind |-> "Help", columns |-> HelpColumns,
                  fn |-> name])

\* The constructor of planner.Help.
HelpConstructor(name, evalDb, skip, f) ==
    LET ok == name \in DOMAIN Builtins
        matches == IF ok THEN Builtins[name] ELSE <<>>
        a == AddRows(<<>>, [i \in 1..Len(matches) |->
                              <<name, matches[i].Signature, matches[i].Category,
                                matches[i].Info>>], f)
    IN
    IF ~ok THEN Ret(NoErr, "valuesNode", <<>>, <<>>, "open", <<>>, evalDb, skip)
    ELSE IF a.err # NoErr
    THEN Ret(a.err, "nil", a.rows, <<>>, "closed", <<>>, evalDb, skip)
    ELSE Ret(NoErr, "valuesNode", a.rows, <<>>, "open", <<>>, evalDb, skip)

----------------------------------------------------------------------------
(* The sort stage: sortNode orders the rows of its source ascending by the *)
(* columns of its ordering, compared in turn.                              *)

\* Row a sorts before row b under the ordering (column indexes from 0).
RECURSIVE RowLess(_, _, _)
RowLess(a, b, ordering) ==
    IF ordering = <<>> THEN FALSE
    ELSE LET c == ordering[1] + 1 IN
         IF a[c] # b[c] THEN StrLess(a[c], b[c])
         ELSE RowLess(a, b, Tail(ordering))

RECURSIVE InsertRow(_, _, _)
InsertRow(r, sorted, ordering) ==
    IF sorted = <<>> THEN <<r>>
    ELSE IF RowLess(r, sorted[1], ordering) THEN <<r>> \o sorted
    ELSE <<sorted[1]>> \o InsertRow(r, Tail(sorted), ordering)

RECURSIVE SortRows(_, _)
SortRows(rows, ordering) ==
    IF rows = <<>> THEN <<>>
    ELSE InsertRow(rows[Len(rows)], SortRows(SubSeq(rows, 1, Len(rows) - 1), ordering), ordering)

----------------------------------------------------------------------------
(* The statements the session issues.                                       *)

\* Lower-case every second byte of a name.
MixedCase(s) == [i \in 1..Len(s) |-> IF i % 2 = 0 THEN ToLowerByte(s[i]) ELSE s[i]]

\* Names for SHOW <name>: the registry keys, ALL and names outside the
\* registry, each in upper, lower and mixed case.
ShowNameInputs ==
    LET base == varGenKeySet \cup {ALL, <<70, 79, 79>>, <<68, 65, 84, 65, 66, 65, 83, 69, 83>>, <<84, 73, 77, 69, 95, 90, 79, 78, 69>>}
    IN base \cup {ToLower(b) : b \in base} \cup {MixedCase(b) : b \in base}

\* A table name as a statement writes it: the database part may be omitted.
Written(db, table) == [db |-> db, table |-> table]

TableNameInputs ==
    {Written(<<>>, tbl_t), Written(<<>>, tbl_u), Written(<<>>, tbl_vw), Written(<<>>, tbl_nt),
     Written(db_test, tbl_t), Written(db_test, tbl_u), Written(db_test, tbl_vw),
     Written(db_other, tbl_t), Written(db_other, tbl_nt), Written(db_nodb, tbl_t),
     Written(db_information_schema, tbl_tables), Written(db_information_schema, tbl_nt)}

DatabaseNameInputs == {<<>>, db_test, db_other, db_nodb, db_information_schema}

\* The sequences over S of length 1 to n.
SeqsUpTo(S, n) == UNION {[1..k -> S] : k \in 1..n}

\* Table patterns of SHOW GRANTS ON: names, db.* and a pattern that does not
\* normalize.
Pattern(db, table, valid) == [db |-> db, table |-> table, valid |-> valid]

TablePatternInputs ==
    {Pattern(<<>>, tbl_t, TRUE), Pattern(db_other, tbl_t, TRUE), Pattern(db_test, tbl_nt, TRUE),
     Pattern(db_test, Star, TRUE), Pattern(<<>>, Star, FALSE)}

GrantDatabaseInputs == {db_test, db_other, db_nodb}

\* n.Targets of SHOW GRANTS: nil, database targets, table targets, or both;
\* a target list may be empty without being nil.
TargetsInputs ==
    {[Tables |-> Nil, isNil |-> TRUE, Databases |-> Nil]}
    \cup {[Tables |-> Nil, isNil |-> FALSE, Databases |-> List(d)] :
            d \in SeqsUpTo(GrantDatabaseInputs, MaxTargets)}
    \cup {[Tables |-> List(p), isNil |-> FALSE, Databases |-> Nil] :
            p \in SeqsUpTo(TablePatternInputs, MaxTargets)}
    \cup {[Tables |-> List(<<p>>), isNil |-> FALSE, Databases |-> List(<<d>>)] :
            d \in {db_test, db_other}, p \in {Pattern(db_test, Star, TRUE)}}
    \cup {[Tables |-> Nil, isNil |-> FALSE, Databases |-> List(<<>>)],
          [Tables |-> List(<<>>), isNil |-> FALSE, Databases |-> Nil]}

\* n.Grantees of SHOW GRANTS: nil, empty, or naming users.
GranteesInputs == {Nil, List(<<>>), List(<<alice>>), List(<<bob, alice>>)}

\* Function names for HELP.
HelpNameInputs == {fn_length, ToUpper(fn_length), MixedCase(fn_now), <<110, 111, 115, 117, 99, 104>>, <<110, 111, 32, 115, 117, 99, 104>>}

----------------------------------------------------------------------------
(* The state machine.                                                       *)

Init ==
    /\ session \in [Database : {<<>>, db_test},
                    DefaultIsolationLevel : {0}, Syntax : {0},
                    Location : {[name |-> <<85, 84, 67>>]},
                    SearchPath : {<<(<<112, 103, 95, 99, 97, 116, 97, 108, 111, 103>>),
                                    (<<112, 117, 98, 108, 105, 99>>)>>},
                    User : {alice, bob}]
    /\ txn \in [Isolation : {0, 1}, UserPriority : {1}]
    /\ evalCtxDatabase = session.Database
    /\ skipSelectPrivilegeChecks \in BOOLEAN
    /\ pc = "idle"
    /\ stmt = NoStmt
    /\ plan = NoPlan
    /\ buildErr = NoErr
    /\ fault = NoFault
    /\ res = NoRes
    /\ acc = "none"
    /\ reads = <<>>
    /\ output = <<>>
    /\ call = NoCall

\* The session hands statement n to its plan-building method, which returned b.
Build(n, b) ==
    /\ pc = "idle"
    /\ stmt' = n
    /\ IF b.err = NoErr
       THEN pc' = "planned" /\ plan' = b.node /\ buildErr' = NoErr
       ELSE pc' = "failed" /\ plan' = NoPlan /\ buildErr' = b.err
    /\ UNCHANGED <<session, txn, evalCtxDatabase, skipSelectPrivilegeChecks, fault, res,
                   acc, reads, output, call>>

\* The delayedNode's constructor ran under fault f and left r behind.
Constructed(r, f) ==
    /\ res' = [err |-> r.err, rows |-> r.rows, node |-> r.node, ordering |-> r.ordering]
    /\ acc' = r.acc
    /\ reads' = r.reads
    /\ evalCtxDatabase' = r.evalDb
    /\ skipSelectPrivilegeChecks' = r.skip
    /\ fault' = f
    /\ pc' = "constructed"
    /\ UNCHANGED <<session, txn, stmt, plan, buildErr, output, call>>

Show ==
    \E name \in ShowNameInputs :
        LET n == [Name |-> name, kind |-> "Show"] IN Build(n, ShowPlan(n))

ShowConstruct ==
    /\ pc = "planned" /\ plan.kind = "Show"
    /\ \E f \in Faults :
         Constructed(ShowConstructor(plan.varName, session, txn, evalCtxDatabase,
                                     skipSelectPrivilegeChecks, f), f)

ShowColumns ==
    \E t \in TableNameInputs :
        LET n == [kind |-> "ShowColumns", Table |-> t] IN Build(n, ShowColumnsPlan(n, session))

ShowColumnsConstruct ==
    /\ pc = "planned" /\ plan.kind = "ShowColumns"
    /\ \E f \in Faults :
         Constructed(ShowColumnsConstructor(plan.tn, session, evalCtxDatabase,
                                            skipSelectPrivilegeChecks, f), f)

ShowTables ==
    \E db \in DatabaseNameInputs :
        LET n == [Database |-> db, kind |-> "ShowTables"] IN Build(n, ShowTablesPlan(n, session))

ShowTablesConstruct ==
    /\ pc = "planned" /\ plan.kind = "ShowTables"
    /\ \E f \in Faults :
         Constructed(ShowTablesConstructor(plan.db, session, evalCtxDatabase,
                                           skipSelectPrivilegeChecks, f), f)

ShowCreateTable ==
    \E t \in TableNameInputs :
        LET n == [kind |-> "ShowCreateTable", Table |-> t]
        IN Build(n, ShowCreateTablePlan(n, session))

ShowCreateTableConstruct ==
    /\ pc = "planned" /\ plan.kind = "ShowCreateTable"
    /\ \E f \in Faults :
         Constructed(ShowCreateTableConstructor(stmt.Table, plan.desc, evalCtxDatabase,
                                                skipSelectPrivilegeChecks, f), f)

ShowCreateView ==
    \E t \in TableNameInputs :
        LET n == [kind |-> "ShowCreateView", View |-> t]
        IN Build(n, ShowCreateViewPlan(n, session))

ShowCreateViewConstruct ==
    /\ pc = "planned" /\ plan.kind = "ShowCreateView"
    /\ \E f \in Faults :
         Constructed(ShowCreateViewConstructor(stmt.View, plan.tn, plan.desc, evalCtxDatabase,
                                               skipSelectPrivilegeChecks, f), f)

ShowGrants ==
    \E targets \in TargetsInputs, grantees \in GranteesInputs :
        LET n == [kind |-> "ShowGrants", Targets |-> targets, Grantees |-> grantees]
        IN Build(n, ShowGrantsPlan(n))

ShowGrantsConstruct ==
    /\ pc = "planned" /\ plan.kind = "ShowGrants"
    /\ \E f \in Faults, order \in {"forward", "backward"} :
         Constructed(ShowGrantsConstructor(plan.n, session, evalCtxDatabase,
                                           skipSelectPrivilegeChecks, f, order), f)

ShowIndex ==
    \E t \in TableNameInputs :
        LET n == [kind |-> "ShowIndex", Table |-> t] IN Build(n, ShowIndexPlan(n, session))

ShowIndexConstruct ==
    /\ pc = "planned" /\ plan.kind = "ShowIndex"
    /\ \E f \in Faults :
         Constructed(ShowIndexConstructor(plan.tn, plan.desc, evalCtxDatabase,
                                          skipSelectPrivilegeChecks, f), f)

ShowConstraints ==
    \E t \in TableNameInputs :
        LET n == [kind |-> "ShowConstraints", Table |-> t]
        IN Build(n, ShowConstraintsPlan(n, session))

ShowConstraintsConstruct ==
    /\ pc = "planned" /\ plan.kind = "ShowConstraints"
    /\ \E f \in Faults, iter \in IterationOrders(GetConstraintInfo(plan.desc)) :
         Constructed(ShowConstraintsConstructor(plan.tn, plan.desc, evalCtxDatabase,
                                                skipSelectPrivilegeChecks, f, iter), f)

Help ==
    \E name \in HelpNameInputs :
        LET n == [Name |-> name, kind |-> "Help"] IN Build(n, HelpPlan(n))

HelpConstruct ==
    /\ pc = "planned" /\ plan.kind = "Help"
    /\ \E f \in Faults :
         Constructed(HelpConstructor(plan.fn, evalCtxDatabase, skipSelectPrivilegeChecks, f), f)

\* The executor runs the node the constructor returned: a valuesNode delivers
\* the accumulator's rows as they are, a selectTopNode delivers them sorted.
Execute ==
    /\ pc = "constructed" /\ res.err = NoErr
    /\ output' = IF res.node = "selectTopNode" THEN SortRows(res.rows, res.ordering)
                 ELSE res.rows
    /\ pc' = "executed"
    /\ UNCHANGED <<session, txn, evalCtxDatabase, skipSelectPrivilegeChecks, stmt, plan,
                   buildErr, fault, res, acc, reads, call>>

\* The statement is over: the session is ready for the next one.
Done ==
    /\ pc \in {"failed", "constructed", "executed"}
    /\ pc' = "idle"
    /\ stmt' = NoStmt
    /\ plan' = NoPlan
    /\ buildErr' = NoErr
    /\ fault' = NoFault
    /\ res' = NoRes
    /\ acc' = "none"
    /\ reads' = <<>>
    /\ output' = <<>>
    /\ UNCHANGED <<session, txn, evalCtxDatabase, skipSelectPrivilegeChecks, call>>

Next ==
    \/ Show \/ ShowConstruct
    \/ ShowColumns \/ ShowColumnsConstruct
    \/ ShowTables \/ ShowTablesConstruct
    \/ ShowCreateTable \/ ShowCreateTableConstruct
    \/ ShowCreateView \/ ShowCreateViewConstruct
    \/ ShowGrants \/ ShowGrantsConstruct
    \/ ShowIndex \/ ShowIndexConstruct
    \/ ShowConstraints \/ ShowConstraintsConstruct
    \/ Help \/ HelpConstruct
    \/ Execute
    \/ Done

Spec == Init /\ [][Next]_vars

----------------------------------------------------------------------------
(* Rendering applied to descriptors beyond those of the catalogue.  The     *)
(* functions that render a clause from a descriptor are applied to every    *)
(* descriptor of a bounded family, and call records the application.        *)

\* Most key columns of an index, and most interleave ancestors.
MaxKeyColumns == 3
MaxAncestors == 2

\* Most columns a view descriptor records.
MaxViewColumns == 3

\* The names of key columns: "a" .. "e".
KeyColumnPool == <<col_a, col_b, col_c, <<100>>, <<101>>>>

\* Interleave.Ancestors: up to MaxAncestors ancestors, each a table of the
\* catalogue and a shared-prefix length.
AncestorInputs ==
    UNION {[1..k -> [TableID : {51, 53}, SharedPrefixLen : 0..MaxKeyColumns]] :
           k \in 0..MaxAncestors}

\* Indexes on the first n columns of the pool, interleaved or not.
IndexInputs ==
    {Index(name_ix, FALSE, SubSeq(KeyColumnPool, 1, n), [i \in 1..n |-> i],
           [i \in 1..n |-> "ASC"], <<>>, anc) :
        n \in 1..MaxKeyColumns, anc \in AncestorInputs}

\* The queries a view descriptor may store.
ViewQueryInputs == {q_a_b, q_b_a, q_a, q_a_b_c, q_syntax, q_delete}

\* View descriptors: every recorded column list over "a", "b", "c" with
\* every stored query.
ViewInputs ==
    {[ID |-> 54, Name |-> tbl_vw, isView |-> TRUE,
      Columns |-> [i \in 1..Len(names) |->
                      Column(i, names[i], type_INT, TRUE, FALSE, <<>>, FALSE)],
      PrimaryIndex |-> Index(<<>>, FALSE, <<>>, <<>>, <<>>, <<>>, <<>>),
      Indexes |-> <<>>,
      Families |-> <<>>,
      Checks |-> <<>>,
      ViewQuery |-> q] :
        names \in SeqsUpTo({col_a, col_b, col_c}, MaxViewColumns), q \in ViewQueryInputs}

\* One session about to run a statement.
InitRender ==
    /\ Init
    /\ session.Database = db_test /\ session.User = alice
    /\ txn.Isolation = 0
    /\ ~skipSelectPrivilegeChecks

\* planner.showCreateInterleave applied to an index.
RenderInterleave ==
    /\ \E idx \in IndexInputs :
          call' = <<"showCreateInterleave", idx, showCreateInterleave(idx, 1, NoFault)>>
    /\ UNCHANGED <<session, txn, evalCtxDatabase, skipSelectPrivilegeChecks, pc, stmt, plan,
                   buildErr, fault, res, acc, reads, output>>

\* The constructor of planner.ShowCreateView applied to a view descriptor,
\* p.Select succeeding or failing.
RenderView ==
    /\ \E desc \in ViewInputs, f \in {NoFault, [kind |-> "desc", idx |-> 1]} :
          call' = <<"ShowCreateView", desc, f,
                    ShowCreateViewConstructor(Written(<<>>, tbl_vw),
                                              [db |-> db_test, table |-> tbl_vw], desc,
                                              evalCtxDatabase, skipSelectPrivilegeChecks, f)>>
    /\ UNCHANGED <<session, txn, evalCtxDatabase, skipSelectPrivilegeChecks, pc, stmt, plan,
                   buildErr, fault, res, acc, reads, output>>

\* The end of the quoted name that starts at position i - 1 of s: the first
\* double quote from i on that is not doubled.
RECURSIVE QuotedEnd(_, _)
QuotedEnd(s, i) ==
    IF i > Len(s) THEN Len(s)
    ELSE IF s[i] # 34 THEN QuotedEnd(s, i + 1)
    ELSE IF i < Len(s) /\ s[i + 1] = 34 THEN QuotedEnd(s, i + 2)
    ELSE i

\* The end of the bare name that starts at position i of s.
RECURSIVE BareEnd(_, _)
BareEnd(s, i) == IF i < Len(s) /\ IsIdentMiddle(s[i + 1]) THEN BareEnd(s, i + 1) ELSE i

\* A name without its quotes, each doubled double quote single again.
RECURSIVE UnescapeQuotes(_)
UnescapeQuotes(s) ==
    IF s = <<>> THEN <<>>
    ELSE IF Len(s) >= 2 /\ s[1] = 34 /\ s[2] = 34 THEN <<34>> \o UnescapeQuotes(SubSeq(s, 3, Len(s)))
    ELSE <<s[1]>> \o UnescapeQuotes(Tail(s))

\* The table name the parser reads after "CREATE TABLE ": a quoted name is
\* one name whatever it contains, a bare name may be followed by a dot and
\* the name of the table.
ParseCreateTableName(text) ==
    LET start == 14
        first == IF text[start] = 34
                 THEN [name |-> UnescapeQuotes(SubSeq(text, start + 1, QuotedEnd(text, start + 1) - 1)),
                       n |-> QuotedEnd(text, start + 1)]
                 ELSE [name |-> SubSeq(text, start, BareEnd(text, start)),
                       n |-> BareEnd(text, start)]
        next == first.n + 2
        second == IF text[next] = 34
                  THEN UnescapeQuotes(SubSeq(text, next + 1, QuotedEnd(text, next + 1) - 1))
                  ELSE SubSeq(text, next, BareEnd(text, next))
    IN
    IF first.n < Len(text) /\ text[first.n + 1] = 46
    THEN Written(first.name, second)
    ELSE Written(<<>>, first.name)

\* The descriptor that CREATE TABLE makes of a rendered text: it carries the
\* name the text gives; its columns, indexes, families and checks are taken
\* to be those the text was rendered from.
RecreateTable(text, desc) == [desc EXCEPT !.Name = ParseCreateTableName(text).table]

\* The tables SHOW CREATE TABLE is asked for, by bare and by qualified name.
RoundTripInputs ==
    {Written(<<>>, tbl_t), Written(<<>>, tbl_u), Written(db_test, tbl_t),
     Written(db_test, tbl_u), Written(db_other, tbl_t)}

\* The text the constructor of planner.ShowCreateTable renders.
RenderedCreateTable(t, desc) ==
    ShowCreateTableConstructor(t, desc, evalCtxDatabase, skipSelectPrivilegeChecks,
                               NoFault).rows[1][2]

\* The constructor of planner.ShowCreateTable applied to a table, then to
\* the table that its text creates.
RenderRoundTrip ==
    /\ \E t \in RoundTripInputs :
          LET desc == DescOf(IF t.db = <<>> THEN session.Database ELSE t.db, t.table)
              first == RenderedCreateTable(t, desc)
              again == RenderedCreateTable(ParseCreateTableName(first),
                                           RecreateTable(first, desc))
          IN call' = <<"ShowCreateTable", t, first, again>>
    /\ UNCHANGED <<session, txn, evalCtxDatabase, skipSelectPrivilegeChecks, pc, stmt, plan,
                   buildErr, fault, res, acc, reads, output>>

NextRender == RenderInterleave \/ RenderView \/ RenderRoundTrip

SpecRender == InitRender /\ [][NextRender]_vars

----------------------------------------------------------------------------

(* Properties of the statements.                                            *)

\* The constructor callback of a statement of kind k has returned.
Returned(k) == pc = "constructed" /\ plan.kind = k

\* The node the callback of a statement of kind k returned has been run.
Delivered(k) == pc = "executed" /\ plan.kind = k

\* The catalog read q was issued by the callback.
Issued(q) == \E i \in 1..Len(reads) : reads[i].q = q

\* How many times row x occurs in rows.
Occurrences(rows, x) == Cardinality({i \in 1..Len(rows) : rows[i] = x})

\* C1: whenever a constructor callback returns an error after it created its
\* result accumulator, the accumulator has been closed: no statement kind
\* returns an error with the accumulator still open.
AccumulatorReleasedOnError ==
    (pc = "constructed" /\ res.err # NoErr /\ res.err.code # "panic") => acc # "open"

\* C2: the callback of SHOW COLUMNS and of SHOW TABLES leaves
\* p.evalCtx.Database as it found it, whichever way it returns; only the
\* getColumns and getTables reads run under the override, every probe before
\* them runs under the database the callback found.
CurrentDatabaseRestored ==
    [][(pc' = "constructed" /\ plan'.kind \in {"ShowColumns", "ShowTables"}) =>
          /\ evalCtxDatabase' = evalCtxDatabase
          /\ \A i \in 1..Len(reads') :
                reads'[i].q \notin {"getColumns", "getTables"} =>
                    reads'[i].evalDb = evalCtxDatabase]_vars

\* The callback of SHOW COLUMNS failed after it ran the column query under a
\* database other than the session's, and the session's database is back.
CurrentDatabaseRestoredWitness ==
    /\ Returned("ShowColumns")
    /\ res.err # NoErr
    /\ \E i \in 1..Len(reads) :
          reads[i].q = "getColumns" /\ reads[i].evalDb # evalCtxDatabase

\* C3: the callback of SHOW CREATE VIEW leaves p.skipSelectPrivilegeChecks with
\* the value it had when the callback was invoked, whether that was true or
\* false.
PrivilegeSuppressionRestored ==
    [][(pc' = "constructed" /\ plan'.kind = "ShowCreateView") =>
          skipSelectPrivilegeChecks' = skipSelectPrivilegeChecks]_vars

\* The errors that name a missing database, a missing table or view, or a
\* principal without privileges.
MissingObjectCodes == {"UndefinedDatabase", "UndefinedTable", "NotAView", "NoPrivileges"}

UnknownVariableFailsAtPlanBuild ==
    (stmt.kind = "Show") =>
        LET name == ToUpper(stmt.Name)
            known == name = ALL \/ name \in varGenKeySet
        IN /\ ~known =>
                /\ pc = "failed"
                /\ buildErr = [code |-> "UnknownVariable", arg |-> name, user |-> <<>>]
                /\ plan = NoPlan
                /\ reads = <<>>
                /\ acc = "none"
           /\ known =>
                /\ pc # "failed"
                /\ plan.varName = name
                /\ pc = "constructed" => res.err.code # "panic"
                /\ (pc = "constructed" /\ fault = NoFault) => res.err = NoErr

\* SHOW with an unknown name written in lower case failed at plan-build time.
UnknownVariableFailsAtPlanBuildWitness ==
    /\ pc = "failed"
    /\ stmt.kind = "Show"
    /\ stmt.Name # ToUpper(stmt.Name)
    /\ buildErr.code = "UnknownVariable"

\* C6: SHOW ALL delivers exactly one (name, value) row per key of varGen, in
\* strictly ascending order of name; SHOW <name> delivers one row holding the
\* value SHOW ALL shows for that name in the same session state.
ShowAllSortedAndConsistent ==
    Delivered("Show") =>
        IF plan.varName = ALL
        THEN /\ Len(output) = Cardinality(varGenKeySet)
             /\ {output[i][1] : i \in 1..Len(output)} = varGenKeySet
             /\ \A i \in 1..(Len(output) - 1) : StrLess(output[i][1], output[i + 1][1])
             /\ \A i \in 1..Len(output) :
                   /\ Len(output[i]) = 2
                   /\ output[i][2] = varGen(output[i][1], session, txn)
        ELSE LET all == ShowConstructor(ALL, session, txn, evalCtxDatabase,
                                        skipSelectPrivilegeChecks, NoFault).rows
             IN /\ Len(output) = 1
                /\ Len(output[1]) = 1
                /\ \E i \in 1..Len(all) :
                      all[i][1] = plan.varName /\ all[i][2] = output[1][1]

\* SHOW ALL delivered its rows.
ShowAllSortedAndConsistentWitness ==
    /\ Delivered("Show")
    /\ plan.varName = ALL
    /\ Len(output) = Len(varGenKeys)
    /\ stmt.Name # ALL

\* C7: the callback of SHOW COLUMNS checks the database, then the table, then
\* the privileges: on a database that does not exist it returns
\* UndefinedDatabase naming the database, on a table that does not exist in an
\* existing database it returns UndefinedTable naming database.table, whoever
\* the user is; in both cases it issues no column query and creates no
\* accumulator.  (A probe that itself fails returns its own error.)
ShowColumnsChecksInOrder ==
    Returned("ShowColumns") =>
        LET tn == plan.tn
            probeFails(k) == fault.kind = "read" /\ fault.idx <= k
        IN /\ reads[1].q = "checkSchema"
           /\ \A i \in 1..Len(reads) :
                 /\ reads[i].q = "checkTable" => i = 2
                 /\ reads[i].q = "checkTablePrivilege" => i = 3
                 /\ reads[i].q = "getColumns" => i = Len(reads) /\ i > 2
           /\ (tn.db \notin Schemata /\ ~probeFails(1)) =>
                 res.err = [code |-> "UndefinedDatabase", arg |-> tn.db, user |-> <<>>]
           /\ (tn.db \in Schemata /\ <<tn.db, tn.table>> \notin Tables /\ ~probeFails(2)) =>
                 res.err = [code |-> "UndefinedTable", arg |-> tn.db \o <<46>> \o tn.table,
                            user |-> <<>>]
           /\ (tn.db \notin Schemata \/ <<tn.db, tn.table>> \notin Tables) =>
                 /\ ~Issued("getColumns")
                 /\ ~Issued("checkTablePrivilege")
                 /\ acc = "none"
                 /\ res.err # NoErr

\* SHOW COLUMNS on a missing table of an existing database, by a user who holds
\* no privilege in that database, returned UndefinedTable.
ShowColumnsChecksInOrderWitness ==
    /\ Returned("ShowColumns")
    /\ res.err.code = "UndefinedTable"
    /\ plan.tn.db = db_other
    /\ session.User = alice
    /\ acc = "none"

\* C8: the callback of SHOW COLUMNS returns rows only if the user holds a
\* privilege on the table or the table is virtual; on a table that is not
\* virtual and on which the user holds nothing it returns the permission error
\* without a column query; on a virtual table it issues no privilege probe and
\* succeeds for every user.
ShowColumnsPrivilegeGate ==
    (Returned("ShowColumns") /\ <<plan.tn.db, plan.tn.table>> \in Tables) =>
        LET tn == plan.tn
            virtual == <<tn.db, tn.table>> \in VirtualTables
            holds == \E i \in 1..Len(TablePrivileges) :
                        /\ TablePrivileges[i][1] = tn.db
                        /\ TablePrivileges[i][2] = tn.table
                        /\ TablePrivileges[i][3] = session.User
        IN /\ res.err = NoErr => (holds \/ virtual)
           /\ (~virtual /\ ~holds) => ~Issued("getColumns")
           /\ (~virtual /\ ~holds /\ fault.kind # "read") =>
                 /\ res.err = [code |-> "NoPrivileges", arg |-> tn.db \o <<46>> \o tn.table,
                               user |-> session.User]
                 /\ acc = "none"
           /\ virtual => ~Issued("checkTablePrivilege")
           /\ (virtual /\ fault = NoFault) =>
                 /\ res.err = NoErr
                 /\ res.rows = getColumns(tn.db, tn.table)
           /\ (holds /\ fault = NoFault) =>
                 /\ res.err = NoErr
                 /\ res.rows = getColumns(tn.db, tn.table)

\* SHOW COLUMNS on a virtual table succeeded for a user without any privilege
\* on it.
ShowColumnsPrivilegeGateWitness ==
    /\ Returned("ShowColumns")
    /\ <<plan.tn.db, plan.tn.table>> \in VirtualTables
    /\ res.err = NoErr
    /\ Len(res.rows) > 0
    /\ ~Issued("checkTablePrivilege")

\* The database targets, table targets and grantee filter of a SHOW GRANTS
\* statement n issued in session s, as sets.
TargetDatabases(n) ==
    IF n.Targets.Databases.isNil THEN {}
    ELSE {n.Targets.Databases.list[i] : i \in 1..Len(n.Targets.Databases.list)}

TargetTables(n, s) ==
    IF n.Targets.Tables.isNil THEN {}
    ELSE UNION {LET p == n.Targets.Tables.list[i] IN
                IF p.table = Star THEN {t \in Tables : t[1] = p.db}
                ELSE {<<IF p.db = <<>> THEN s.Database ELSE p.db, p.table>>}
                : i \in 1..Len(n.Targets.Tables.list)}

Selected(n, grantee) ==
    n.Grantees.isNil \/ \E i \in 1..Len(n.Grantees.list) : n.Grantees.list[i] = grantee

\* How many stored privileges of the targets of n show as row x.
StoredOccurrences(n, s, x) ==
    Cardinality({i \in 1..Len(SchemaPrivileges) :
                    /\ SchemaPrivileges[i][1] \in TargetDatabases(n)
                    /\ Selected(n, SchemaPrivileges[i][2])
                    /\ SchemaPrivileges[i] = x})
    + Cardinality({i \in 1..Len(TablePrivileges) :
                    /\ <<TablePrivileges[i][1], TablePrivileges[i][2]>> \in TargetTables(n, s)
                    /\ Selected(n, TablePrivileges[i][3])
                    /\ <<TablePrivileges[i][2], TablePrivileges[i][3], TablePrivileges[i][4]>> = x})

\* Row a does not come after row b in the order (object, grantee, privilege).
GrantsInOrder(a, b) ==
    \/ StrLess(a[1], b[1])
    \/ a[1] = b[1] /\ StrLess(a[2], b[2])
    \/ a[1] = b[1] /\ a[2] = b[2] /\ (StrLess(a[3], b[3]) \/ a[3] = b[3])

\* C9: SHOW GRANTS with targets delivers the rows read from the database
\* privileges and from the table privileges of its targets, each as often as
\* it is stored, in ascending order of (object name, grantee, privilege); the
\* sort loses and duplicates nothing.
ShowGrantsSortedUnion ==
    Delivered("ShowGrants") =>
        /\ \A i \in 1..(Len(output) - 1) : GrantsInOrder(output[i], output[i + 1])
        /\ Len(output) = Len(res.rows)
        /\ \A i \in 1..Len(res.rows) :
              Occurrences(output, res.rows[i]) = Occurrences(res.rows, res.rows[i])
        /\ \A i \in 1..Len(output) :
              Occurrences(output, output[i]) = StoredOccurrences(stmt, session, output[i])
        /\ \A i \in 1..Len(SchemaPrivileges) :
              Occurrences(output, SchemaPrivileges[i])
                  = StoredOccurrences(stmt, session, SchemaPrivileges[i])
        /\ \A i \in 1..Len(TablePrivileges) :
              LET x == <<TablePrivileges[i][2], TablePrivileges[i][3], TablePrivileges[i][4]>>
              IN Occurrences(output, x) = StoredOccurrences(stmt, session, x)

\* SHOW GRANTS ON t delivered alice/INSERT, alice/SELECT, bob/SELECT, which is
\* not the order the rows were read in.
ShowGrantsSortedUnionWitness ==
    /\ Delivered("ShowGrants")
    /\ output = << <<tbl_t, alice, INSERT>>, <<tbl_t, alice, SELECT>>, <<tbl_t, bob, SELECT>> >>
    /\ output # res.rows

\* C10: SHOW CONSTRAINTS delivers exactly one row per entry of the constraint
\* info, the kind carrying " (UNVALIDATED)" exactly when the entry is
\* unvalidated, in ascending order of (table name, constraint name), and the
\* rows delivered are the same for every order in which the map is iterated.
ShowConstraintsSortedRows ==
    Delivered("ShowConstraints") =>
        LET info == GetConstraintInfo(plan.desc) IN
        /\ Len(output) = Cardinality(DOMAIN info)
        /\ {output[i][2] : i \in 1..Len(output)} = DOMAIN info
        /\ \A i \in 1..Len(output) :
              /\ output[i][1] = plan.tn.table
              /\ output[i][3] = IF info[output[i][2]].Unvalidated
                                THEN info[output[i][2]].Kind
                                         \o <<32, 40, 85, 78, 86, 65, 76, 73, 68, 65, 84, 69, 68, 41>>
                                ELSE info[output[i][2]].Kind
        /\ \A i \in 1..(Len(output) - 1) :
              \/ StrLess(output[i][1], output[i + 1][1])
              \/ output[i][1] = output[i + 1][1] /\ StrLess(output[i][2], output[i + 1][2])
        /\ \A iter \in IterationOrders(info) :
              LET r == ShowConstraintsConstructor(plan.tn, plan.desc, evalCtxDatabase,
                                                  skipSelectPrivilegeChecks, NoFault, iter)
              IN SortRows(r.rows, r.ordering) = output

\* SHOW CONSTRAINTS delivered three rows, one of them unvalidated, in an order
\* other than the one the map was iterated in.
ShowConstraintsSortedRowsWitness ==
    /\ Delivered("ShowConstraints")
    /\ Len(output) = 3
    /\ output # res.rows
    /\ \E i \in 1..Len(output) : output[i][3] = <<67, 72, 69, 67, 75>> \o UnvalidatedSuffix

----------------------------------------------------------------------------
(* SHOW INDEX: the order of the rows.                                       *)

\* The indexes of a table in the order SHOW INDEX visits them.
IndexesOf(desc) == <<desc.PrimaryIndex>> \o desc.Indexes

\* The number of key and storing columns of an index.
IndexSize(index) == Len(index.ColumnNames) + Len(index.StoreColumnNames)

\* The number of rows that belong to the indexes before the k-th.
RECURSIVE RowsBefore(_, _)
RowsBefore(indexes, k) ==
    IF k = 1 THEN 0 ELSE RowsBefore(indexes, k - 1) + IndexSize(indexes[k - 1])

\* C11: SHOW INDEX delivers the rows of the primary index, then those of each
\* secondary index in descriptor order, as contiguous blocks; a block holds
\* one row per key column in key order with the column's direction and
\* storing = false, then one row per storing column with direction "N/A" and
\* storing = true, and its sequence numbers are 1, 2, ... up to the number
\* of key and storing columns, starting again at 1 in every block.
ShowIndexRowsInOrder ==
    Delivered("ShowIndex") =>
        LET indexes == IndexesOf(plan.desc) IN
        /\ Len(output) = RowsBefore(indexes, Len(indexes) + 1)
        /\ \A k \in 1..Len(indexes) : \A p \in 1..IndexSize(indexes[k]) :
              LET row == output[RowsBefore(indexes, k) + p]
                  nk == Len(indexes[k].ColumnNames)
              IN
              /\ row[1] = plan.tn.table
              /\ row[2] = indexes[k].Name
              /\ row[3] = indexes[k].Unique
              /\ row[4] = p
              /\ IF p <= nk
                 THEN /\ row[5] = indexes[k].ColumnNames[p]
                      /\ row[6] = (IF indexes[k].ColumnDirections[p] = "ASC"
                                   THEN <<65, 83, 67>> ELSE <<68, 69, 83, 67>>)
                      /\ row[7] = FALSE
                 ELSE /\ row[5] = indexes[k].StoreColumnNames[p - nk]
                      /\ row[6] = <<78, 47, 65>>
                      /\ row[7] = TRUE

\* SHOW INDEX FROM test.u delivered five rows: one for the primary index, then
\* 1, 2, 3 for the unique index on (a, b DESC) storing c, then 1 again.
ShowIndexRowsInOrderWitness ==
    /\ Delivered("ShowIndex")
    /\ plan.tn.table = tbl_u
    /\ Len(output) = 5
    /\ output[3][6] = <<68, 69, 83, 67>>
    /\ output[4][4] = 3 /\ output[4][7] = TRUE /\ output[4][6] = <<78, 47, 65>>
    /\ output[5][4] = 1

----------------------------------------------------------------------------
(* SHOW CREATE TABLE: the order of the clauses.                             *)

\* The positions at which pat occurs in text.
Positions(text, pat) ==
    {i \in 1..(Len(text) - Len(pat) + 1) : SubSeq(text, i, i + Len(pat) - 1) = pat}

\* The text that SHOW CREATE TABLE delivered.
CreateTableText == output[1][2]

\* C12: the text of SHOW CREATE TABLE is the header, the column lines, the
\* PRIMARY KEY clause if any, the clauses of the secondary indexes, the CHECK
\* clauses, the FAMILY clauses, the closing parenthesis and the interleave
\* clause of the primary index, in this order; every CHECK clause precedes
\* every FAMILY clause.
CreateTableClausesAsListed ==
    Delivered("ShowCreateTable") =>
        LET desc == plan.desc
            cols == VisibleColumns(desc)
            listed ==
                << <<67, 82, 69, 65, 84, 69, 32, 84, 65, 66, 76, 69, 32>>
                       \o quoteNames(<<NameAsWritten(stmt.Table)>>) \o <<32, 40>> >>
                \o [i \in 1..Len(cols) |-> ColumnClause(cols[i], i)]
                \o << PrimaryClause(desc) >>
                \o IndexClauses(desc.Indexes, 1, 0, NoFault).clauses
                \o [i \in 1..Len(desc.Checks) |-> CheckClause(desc.Checks[i])]
                \o [i \in 1..Len(desc.Families) |-> FamilyClause(desc, desc.Families[i])]
                \o << <<10, 41>> >>
        IN
        /\ \E tail \in {<<>>, showCreateInterleave(desc.PrimaryIndex, 1, NoFault).s} :
              CreateTableText = Concat(listed) \o tail
        /\ \A c \in Positions(CreateTableText, <<10, 9, 67, 72, 69, 67, 75, 32, 40>>)
                      \cup Positions(CreateTableText,
                                     <<10, 9, 67, 79, 78, 83, 84, 82, 65, 73, 78, 84, 32, 99, 107, 32, 67, 72, 69, 67, 75>>) :
              \A m \in Positions(CreateTableText, <<10, 9, 70, 65, 77, 73, 76, 89, 32>>) : c < m

----------------------------------------------------------------------------
(* SHOW CREATE TABLE: the PRIMARY KEY clause.                               *)

\* The first key column of the primary index is a visible column.
PrimaryKeyIsVisible(desc) ==
    /\ ~desc.isView
    /\ \E i \in 1..Len(desc.Columns) :
          ~desc.Columns[i].Hidden /\ desc.Columns[i].ID = desc.PrimaryIndex.ColumnIDs[1]

\* Where the lines of the visible columns start in the delivered text.
ColumnLinePositions(desc) ==
    UNION {Positions(CreateTableText,
                     <<10, 9>> \o QuoteName(desc.Columns[i].Name) \o <<32>> \o desc.Columns[i].Type) :
           i \in {j \in 1..Len(desc.Columns) : ~desc.Columns[j].Hidden}}

\* Where the clauses of the secondary indexes start in the delivered text.
IndexClausePositions ==
    Positions(CreateTableText, <<44, 10, 9, 73, 78, 68, 69, 88, 32>>)
    \cup Positions(CreateTableText, <<44, 10, 9, 85, 78, 73, 81, 85, 69, 32, 73, 78, 68, 69, 88, 32>>)

\* C13: the text of SHOW CREATE TABLE holds a CONSTRAINT ... PRIMARY KEY
\* clause exactly when the table is physical and the first key column of its
\* primary index is visible; the clause then occurs once, after every column
\* line and before every index clause, and lists all primary key columns.  A
\* table keyed by the hidden rowid and a view never have the clause.
PrimaryKeyClauseWhenVisible ==
    Delivered("ShowCreateTable") =>
        LET desc == plan.desc
            anywhere == Positions(CreateTableText, <<80, 82, 73, 77, 65, 82, 89, 32, 75, 69, 89>>)
            clause == <<44, 10, 9, 67, 79, 78, 83, 84, 82, 65, 73, 78, 84, 32>>
                        \o QuoteName(desc.PrimaryIndex.Name)
                        \o <<32, 80, 82, 73, 77, 65, 82, 89, 32, 75, 69, 89, 32, 40>>
                        \o Join([i \in 1..Len(desc.PrimaryIndex.ColumnNames) |->
                                    QuoteName(desc.PrimaryIndex.ColumnNames[i])], <<44, 32>>)
                        \o <<41>>
            at == Positions(CreateTableText, clause)
        IN
        IF PrimaryKeyIsVisible(desc)
        THEN /\ Cardinality(at) = 1
             /\ Cardinality(anywhere) = 1
             /\ \A p \in at :
                   /\ \A c \in ColumnLinePositions(desc) : c < p
                   /\ \A x \in IndexClausePositions : p < x
        ELSE anywhere = {}

\* SHOW CREATE TABLE other.t delivered a text with the clause for the key
\* (a, b) between the column lines and the clause of the index on b.
PrimaryKeyClauseWhenVisibleWitness ==
    /\ Delivered("ShowCreateTable")
    /\ plan.desc.ID = 53
    /\ Positions(CreateTableText, <<80, 82, 73, 77, 65, 82, 89, 32, 75, 69, 89, 32, 40, 97, 44, 32, 98, 41>>) # {}
    /\ IndexClausePositions # {}
    /\ ColumnLinePositions(plan.desc) # {}

\* SHOW CREATE TABLE delivered the text of a table keyed by the hidden rowid.
PrimaryKeyClauseAbsentForRowid ==
    /\ Delivered("ShowCreateTable")
    /\ plan.desc.ID = 52

\* SHOW CREATE TABLE delivered the text of a view-backed table.
PrimaryKeyClauseAbsentForView ==
    /\ Delivered("ShowCreateTable")
    /\ plan.desc.isView

----------------------------------------------------------------------------
(* The interleave clause.                                                   *)

\* The data-model invariant of an index: no ancestor shares more key columns
\* than the index has.
AncestorsWithinKey(idx) ==
    \A i \in 1..Len(idx.Ancestors) : idx.Ancestors[i].SharedPrefixLen <= Len(idx.ColumnNames)

\* The sum of the shared-prefix lengths of the first k ancestors.
RECURSIVE SharedPrefixSum(_, _)
SharedPrefixSum(idx, k) ==
    IF k = 0 THEN 0 ELSE SharedPrefixSum(idx, k - 1) + idx.Ancestors[k].SharedPrefixLen

\* C14: for every index whose ancestors each share at most as many columns as
\* the index has key columns, rendering the interleave clause succeeds; the
\* clause is empty when there is no ancestor and otherwise names the last
\* ancestor and lists the first N key columns, N being the sum of the
\* ancestors' shared-prefix lengths, which is at most the number of key
\* columns.
InterleaveClauseRenders ==
    (call[1] = "showCreateInterleave" /\ AncestorsWithinKey(call[2])) =>
        LET idx == call[2]
            got == call[3]
            n == SharedPrefixSum(idx, Len(idx.Ancestors))
        IN
        /\ got.err = NoErr
        /\ idx.Ancestors = <<>> => got.s = <<>>
        /\ idx.Ancestors # <<>> =>
              /\ n <= Len(idx.ColumnNames)
              /\ got.s = <<32, 73, 78, 84, 69, 82, 76, 69, 65, 86, 69, 32, 73, 78, 32, 80, 65, 82, 69, 78, 84, 32>>
                           \o DescByID(idx.Ancestors[Len(idx.Ancestors)].TableID).Name
                           \o <<32, 40>>
                           \o Join([i \in 1..n |-> QuoteName(idx.ColumnNames[i])], <<44, 32>>)
                           \o <<41>>

----------------------------------------------------------------------------
(* SHOW CREATE VIEW: the column list and the failures.                      *)

\* The re-planned and the recorded column names differ at a position that
\* both have.
DiffersAtSomePosition(planned, recorded) ==
    \E i \in 1..Len(planned) : i <= Len(recorded) /\ planned[i] # recorded[i].Name

\* C15: for every view whose stored query parses and re-plans, SHOW CREATE
\* VIEW completes, and its text has the explicit column list exactly when
\* the re-planned and the recorded column names differ at some ordinal
\* position, whatever the lengths of the two column sequences.
ViewColumnListIffRenamed ==
    (/\ call[1] = "ShowCreateView"
     /\ call[3] = NoFault
     /\ call[2].ViewQuery \in {q_a_b, q_b_a, q_a, q_a_b_c}) =>
        LET desc == call[2]
            got == call[4]
            names == [i \in 1..Len(desc.Columns) |-> desc.Columns[i].Name]
            list == IF DiffersAtSomePosition(SelectColumns(desc.ViewQuery), desc.Columns)
                    THEN <<40>> \o Join(names, <<44, 32>>) \o <<41, 32>>
                    ELSE <<>>
        IN
        /\ got.err = NoErr
        /\ Len(got.rows) = 1
        /\ got.rows[1][2] = <<67, 82, 69, 65, 84, 69, 32, 86, 73, 69, 87, 32, 118, 119, 32>>
                              \o list \o <<65, 83, 32>> \o desc.ViewQuery

\* Re-examining the stored query of the view fails: the text does not parse,
\* the statement is not a select, or building the select plan fails.
StoredQueryFails(desc, f) ==
    \/ desc.ViewQuery = q_syntax
    \/ desc.ViewQuery = q_delete
    \/ f = [kind |-> "desc", idx |-> 1]

\* C16: when re-examining the stored view query fails in any of the three
\* ways, the callback of SHOW CREATE VIEW returns an error and no row, and
\* the error names the view.
StoredQueryFailureNamesView ==
    (call[1] = "ShowCreateView" /\ StoredQueryFails(call[2], call[3])) =>
        /\ call[4].err # NoErr
        /\ call[4].node = "nil"
        /\ call[4].rows = <<>>
        /\ call[4].err.arg = <<116, 101, 115, 116, 46, 118, 119>>

----------------------------------------------------------------------------
(* SHOW GRANTS without a target.                                            *)

\* C17: SHOW GRANTS with no target fails while the plan is built, with the
\* fixed not-implemented error: no plan is returned, no catalog read is
\* issued and no accumulator is created, whatever grantees are named.
GrantsWithoutTargetNotImplemented ==
    (stmt.kind = "ShowGrants" /\ stmt.Targets.isNil) =>
        /\ pc = "failed"
        /\ buildErr = Err("NotImplemented", <<>>)
        /\ plan = NoPlan
        /\ res = NoRes
        /\ reads = <<>>
        /\ acc = "none"

\* SHOW GRANTS FOR bob, alice without a target has failed at plan build.
GrantsWithoutTargetNotImplementedWitness ==
    /\ pc = "failed"
    /\ stmt.kind = "ShowGrants"
    /\ stmt.Targets.isNil
    /\ stmt.Grantees = List(<<bob, alice>>)
    /\ buildErr.code = "NotImplemented"

----------------------------------------------------------------------------
(* HELP.                                                                    *)

\* The name of the HELP statement as it is written, in lower case.
HelpKey == ToLower(QuoteName(stmt.Name))

\* C18: HELP looks up the lower-cased name in the registry of builtins.
\* Without an entry the callback succeeds with no rows and never fails; with
\* an entry it returns one row per registered signature, in registry order,
\* each carrying the lower-cased name, and fails only when appending a row
\* fails.
HelpRowsPerSignature ==
    Returned("Help") =>
        /\ HelpKey \notin DOMAIN Builtins =>
              res.err = NoErr /\ res.node = "valuesNode" /\ res.rows = <<>>
        /\ HelpKey \in DOMAIN Builtins =>
              /\ res.err = NoErr =>
                    /\ res.node = "valuesNode"
                    /\ Len(res.rows) = Len(Builtins[HelpKey])
                    /\ \A i \in 1..Len(res.rows) :
                          res.rows[i] = <<HelpKey, Builtins[HelpKey][i].Signature,
                                          Builtins[HelpKey][i].Category,
                                          Builtins[HelpKey][i].Info>>
              /\ res.err # NoErr =>
                    fault.kind = "add" /\ fault.idx <= Len(Builtins[HelpKey])

\* HELP LENGTH returned the two signatures registered for length.
HelpRowsPerSignatureWitness ==
    /\ Returned("Help")
    /\ stmt.Name = <<76, 69, 78, 71, 84, 72>>
    /\ res.err = NoErr
    /\ Len(res.rows) = 2
    /\ res.rows[1][1] = fn_length
    /\ res.rows[1][2] # res.rows[2][2]

\* HELP of a name without an entry returned no rows while a failure was due.
HelpWithoutEntrySucceeds ==
    /\ Returned("Help")
    /\ HelpKey \notin DOMAIN Builtins
    /\ fault # NoFault
    /\ res.err = NoErr

----------------------------------------------------------------------------
(* Catalog reads are not retried.                                           *)

\* How many of the reads of the callback used template q.
ReadCount(q) == Cardinality({i \in 1..Len(reads) : reads[i].q = q})

\* How many tables the patterns expand to.
RECURSIVE ExpandedCount(_, _)
ExpandedCount(patterns, s) ==
    IF patterns = <<>> THEN 0
    ELSE (IF patterns[1].valid THEN Len(expandTableGlob(patterns[1], s).tables) ELSE 0)
         + ExpandedCount(Tail(patterns), s)

\* C19: a callback does not retry.  It issues each catalog read at most once
\* per target: SHOW COLUMNS and SHOW TABLES use each template at most once,
\* SHOW GRANTS probes at most once per database and per expanded table and
\* issues each privilege query at most once.  When a catalog read fails, it
\* is the last read of the callback and the callback returns the error of
\* that read as it is.
NoRetryInCallback ==
    pc = "constructed" =>
        /\ plan.kind \in {"ShowColumns", "ShowTables"} =>
              \A i, j \in 1..Len(reads) : i < j => reads[i].q # reads[j].q
        /\ plan.kind = "ShowGrants" =>
              /\ ReadCount("checkSchema") <= Len(stmt.Targets.Databases.list)
              /\ ReadCount("checkTable") <= ExpandedCount(stmt.Targets.Tables.list, session)
              /\ ReadCount("schemaGrants") <= 1
              /\ ReadCount("tableGrants") <= 1
        /\ (fault.kind = "read" /\ fault.idx <= Len(reads)) =>
              /\ Len(reads) = fault.idx
              /\ res.err = [code |-> "read", arg |-> <<fault.idx>>, user |-> <<>>]
              /\ res.node = "nil"

\* The probe of the second database of SHOW GRANTS ON DATABASE failed: two
\* reads were issued and the error of the second came back.
NoRetryInCallbackWitness ==
    /\ Returned("ShowGrants")
    /\ Len(stmt.Targets.Databases.list) = 2
    /\ fault = [kind |-> "read", idx |-> 2]
    /\ Len(reads) = 2
    /\ reads[2].q = "checkSchema"
    /\ res.err.code = "read"

\* The privilege probe of SHOW COLUMNS failed after both existence probes.
NoRetryAfterPrivilegeProbe ==
    /\ Returned("ShowColumns")
    /\ fault = [kind |-> "read", idx |-> 3]
    /\ Len(reads) = 3
    /\ reads[3].q = "checkTablePrivilege"
    /\ res.err.code = "read"

----------------------------------------------------------------------------
(* SHOW CREATE TABLE: the round trip.                                       *)

\* C20: the text rendered for a table, and the text rendered for the table
\* that CREATE TABLE makes of that text, are the same bytes.
CreateTableRoundTrip ==
    call[1] = "ShowCreateTable" => call[4] = call[3]

----------------------------------------------------------------------------
(* SHOW GRANTS: the existence probes.                                       *)

\* The tables the patterns name, in statement order, up to the first pattern
\* that does not normalize or does not expand.
RECURSIVE ExpandedTables(_, _)
ExpandedTables(patterns, s) ==
    IF patterns = <<>> THEN <<>>
    ELSE IF ~patterns[1].valid \/ expandTableGlob(patterns[1], s).err # NoErr THEN <<>>
    ELSE expandTableGlob(patterns[1], s).tables \o ExpandedTables(Tail(patterns), s)

\* C21: SHOW GRANTS probes every database target, and every table that the
\* table patterns expand to, for existence as the root user and in statement
\* order, before it issues the privilege query of that source.  At the first
\* target that does not exist the callback stops with the undefined-database
\* error naming the database, or the undefined-table error naming the
\* qualified table; the accumulator is released, and neither the privilege
\* query of that source nor a later probe is issued.
GrantsProbeBeforeQuery ==
    Returned("ShowGrants") =>
        LET dbs == stmt.Targets.Databases.list
            E == ExpandedTables(stmt.Targets.Tables.list, session)
            nS == ReadCount("checkSchema")
            nT == ReadCount("checkTable")
            base == IF stmt.Targets.Databases.isNil THEN 0 ELSE Len(dbs) + 1
        IN
        /\ \A i \in 1..Len(reads) :
              reads[i].q \in {"checkSchema", "checkTable"} => reads[i].asRoot
        /\ nS <= Len(dbs)
        /\ \A i \in 1..nS : reads[i].q = "checkSchema" /\ reads[i].args = <<dbs[i]>>
        /\ \A p \in 1..Len(reads) :
              reads[p].q = "schemaGrants" =>
                  /\ p = Len(dbs) + 1
                  /\ \A i \in 1..Len(dbs) : dbs[i] \in Schemata
        /\ nT <= Len(E)
        /\ \A j \in 1..nT :
              /\ reads[base + j].q = "checkTable"
              /\ reads[base + j].args = <<E[j].db, E[j].table>>
        /\ \A p \in 1..Len(reads) :
              reads[p].q = "tableGrants" =>
                  /\ p = base + Len(E) + 1
                  /\ p = Len(reads)
                  /\ \A j \in 1..Len(E) : <<E[j].db, E[j].table>> \in Tables
        /\ \A m \in 1..Len(dbs) :
              (/\ dbs[m] \notin Schemata
               /\ \A i \in 1..(m - 1) : dbs[i] \in Schemata
               /\ ~(fault.kind = "read" /\ fault.idx <= m)) =>
                  /\ res.err = [code |-> "UndefinedDatabase", arg |-> dbs[m], user |-> <<>>]
                  /\ res.node = "nil"
                  /\ acc = "closed"
                  /\ Len(reads) = m
        /\ \A m \in 1..Len(E) :
              (/\ <<E[m].db, E[m].table>> \notin Tables
               /\ \A j \in 1..(m - 1) : <<E[j].db, E[j].table>> \in Tables
               /\ \A i \in 1..Len(dbs) : dbs[i] \in Schemata
               /\ fault.kind = "none") =>
                  /\ res.err = [code |-> "UndefinedTable",
                                arg |-> E[m].db \o <<46>> \o E[m].table, user |-> <<>>]
                  /\ res.node = "nil"
                  /\ acc = "closed"
                  /\ Len(reads) = base + m

\* SHOW GRANTS ON DATABASE test, nodb stopped at the probe of nodb.
GrantsProbeBeforeQueryWitness ==
    /\ Returned("ShowGrants")
    /\ stmt.Targets.Databases.list = <<db_test, db_nodb>>
    /\ Len(reads) = 2
    /\ reads[2].q = "checkSchema" /\ reads[2].asRoot
    /\ res.err = [code |-> "UndefinedDatabase", arg |-> db_nodb, user |-> <<>>]
    /\ acc = "closed"

\* SHOW GRANTS ON t, test.nt stopped at the probe of test.nt.
GrantsProbeStopsAtMissingTable ==
    /\ Returned("ShowGrants")
    /\ Len(stmt.Targets.Tables.list) = 2
    /\ Len(reads) = 2
    /\ reads[2].q = "checkTable" /\ reads[2].args = <<db_test, tbl_nt>>
    /\ res.err.code = "UndefinedTable"
    /\ acc = "closed"

\* SHOW GRANTS ON DATABASE other, test issued its privilege query after
\* both probes.
GrantsQueryAfterProbes ==
    /\ Returned("ShowGrants")
    /\ stmt.Targets.Databases.list = <<db_other, db_test>>
    /\ res.err = NoErr
    /\ Len(reads) = 3
    /\ reads[3].q = "schemaGrants"

----------------------------------------------------------------------------
(* SHOW GRANTS: the parameters of the privilege queries.                    *)

\* The number written in decimal digits from position i of text on.
RECURSIVE NumberAt(_, _, _)
NumberAt(text, i, sofar) ==
    IF i <= Len(text) /\ text[i] >= 48 /\ text[i] <= 57
    THEN NumberAt(text, i + 1, 10 * sofar + (text[i] - 48))
    ELSE sofar

\* The numbers of the placeholders $n of a statement text, in the order in
\* which they appear.
Placeholders(text) ==
    LET marks == {i \in 1..Len(text) : text[i] = 36}
        Nth(j) == CHOOSE i \in marks : Cardinality({m \in marks : m < i}) = j - 1
    IN [j \in 1..Cardinality(marks) |-> NumberAt(text, Nth(j) + 1, 0)]

\* " AND GRANTEE IN("
GranteeFilter == <<32, 65, 78, 68, 32, 71, 82, 65, 78, 84, 69, 69, 32, 73, 78, 40>>

\* The parameters that name the targets of a privilege query: each database,
\* or the database and the name of each table, in target order.
RECURSIVE TargetParams(_, _, _)
TargetParams(q, dbs, tables) ==
    IF q = "schemaGrants" THEN dbs
    ELSE IF tables = <<>> THEN <<>>
    ELSE <<tables[1].db, tables[1].table>> \o TargetParams(q, dbs, Tail(tables))

\* C22: every privilege query that SHOW GRANTS builds is well-formed in its
\* parameters.  The placeholders of its text are $1 .. $k in this order, k
\* being the number of bound parameters; the parameters are those of the
\* targets in target order followed by the grantees in grantee order; the
\* grantee filter is in the text exactly when the statement has a grantee
\* list, and the placeholders of the targets come before it.  Target and
\* grantee lists may be empty without being nil.
GrantsQueryWellFormed ==
    Returned("ShowGrants") =>
        \A p \in 1..Len(reads) :
            reads[p].q \in {"schemaGrants", "tableGrants"} =>
                LET text == reads[p].text
                    k == Len(reads[p].args)
                    targets == TargetParams(reads[p].q, stmt.Targets.Databases.list,
                                            ExpandedTables(stmt.Targets.Tables.list, session))
                    grantees == IF stmt.Grantees.isNil THEN <<>> ELSE stmt.Grantees.list
                    filters == Positions(text, GranteeFilter)
                IN
                /\ Placeholders(text) = [i \in 1..k |-> i]
                /\ reads[p].args = targets \o grantees
                /\ IF stmt.Grantees.isNil THEN filters = {}
                   ELSE /\ Cardinality(filters) = 1
                        /\ \A at \in filters :
                              Placeholders(SubSeq(text, 1, at - 1))
                                  = [i \in 1..Len(targets) |-> i]

\* SHOW GRANTS ON test.*, test.* FOR bob, alice bound fourteen parameters:
\* the placeholders run to $14.
GrantsQueryWellFormedWitness ==
    /\ Returned("ShowGrants")
    /\ res.err = NoErr
    /\ Len(reads) > 0
    /\ reads[Len(reads)].q = "tableGrants"
    /\ Len(reads[Len(reads)].args) = 14
    /\ Positions(reads[Len(reads)].text, <<36, 49, 52, 41>>) # {}

\* SHOW GRANTS with an empty database list and an empty grantee list built a
\* statement without placeholders and with the grantee filter.
GrantsQueryOfEmptyLists ==
    /\ Returned("ShowGrants")
    /\ ~stmt.Targets.Databases.isNil /\ stmt.Targets.Databases.list = <<>>
    /\ ~stmt.Grantees.isNil /\ stmt.Grantees.list = <<>>
    /\ Len(reads) = 1
    /\ reads[1].args = <<>>
    /\ Positions(reads[1].text, GranteeFilter \o <<41>>) # {}

====
